---------------------------- MODULE Spec2Model ----------------------------
(***************************************************************************)
(* A model of the debtlens scoring engine (src-tauri): the per-file score  *)
(* aggregator, the durable store of file scores, the in-memory analysis    *)
(* cache with its heatmap, the full workspace scan and the single-file     *)
(* rescore.                                                                *)
(*                                                                         *)
(* Conventions.                                                            *)
(*  - A string is a sequence of one-character strings, so that splitting a *)
(*    path on '/' and joining a prefix with '/' are computed, not assumed. *)
(*  - Option<T>: None is <<>>, Some(x) is <<x>>.                           *)
(*  - Result<T, String>: [ok |-> TRUE, val |-> x] or [ok |-> FALSE,        *)
(*    err |-> e].                                                          *)
(*  - f64 scores: raw scores are whole points 0..100, weights are whole    *)
(*    hundredths, so contributions and composite scores are integers in    *)
(*    hundredths of a point (65.0 is 6500).  The inputs are drawn so that  *)
(*    every quotient the analyzers take is exact.  A mean is kept as the   *)
(*    reduced fraction <<numerator, denominator>>.                         *)
(***************************************************************************)
EXTENDS Integers, Sequences, FiniteSets, TLC

---------------------------------------------------------------------------
(* Option and Result *)

None == <<>>

Some(x) == <<x>>

IsSome(o) == o # <<>>

Unwrap(o) == o[1]

Ok(x) == [ok |-> TRUE, val |-> x]

Err(e) == [ok |-> FALSE, err |-> e]

---------------------------------------------------------------------------
(* Strings and paths *)

Min(a, b) == IF a <= b THEN a ELSE b

Max(a, b) == IF a >= b THEN a ELSE b

RECURSIVE GCD(_, _)
GCD(a, b) == IF b = 0 THEN a ELSE GCD(b, a % b)

\* a / b on non-negative integers as a reduced fraction
Frac(a, b) == LET g == GCD(a, b) IN IF a = 0 THEN <<0, 1>> ELSE <<a \div g, b \div g>>

\* exact arithmetic on non-negative fractions, for the f64 of a raw score
FracGe(r, t) == r[1] * t[2] >= t[1] * r[2]

FracMin(a, b) == IF FracGe(a, b) THEN b ELSE a

FracAdd(a, b) == Frac(a[1] * b[2] + b[1] * a[2], a[2] * b[2])

FracSub(a, b) == Frac(a[1] * b[2] - b[1] * a[2], a[2] * b[2])

FracMul(a, b) == Frac(a[1] * b[1], a[2] * b[2])

FracDiv(a, b) == Frac(a[1] * b[2], a[2] * b[1])

RECURSIVE FracSum(_)
FracSum(s) == IF s = <<>> THEN Frac(0, 1) ELSE FracAdd(s[1], FracSum(Tail(s)))

\* a raw score that is a whole number of points, as that number
Points(score) == score[1] \div score[2]

RECURSIVE SumSeq(_)
SumSeq(s) == IF s = <<>> THEN 0 ELSE s[1] + SumSeq(Tail(s))

StartsWith(s, p) == Len(s) >= Len(p) /\ SubSeq(s, 1, Len(p)) = p

\* str::trim_start_matches(c)
RECURSIVE TrimStart(_, _)
TrimStart(s, c) == IF s # <<>> /\ s[1] = c THEN TrimStart(Tail(s), c) ELSE s

\* str::split(c): the segments between the separators, empty ones kept
RECURSIVE SplitFrom(_, _, _)
SplitFrom(s, c, cur) ==
    IF s = <<>> THEN <<cur>>
    ELSE IF s[1] = c THEN <<cur>> \o SplitFrom(Tail(s), c, <<>>)
    ELSE SplitFrom(Tail(s), c, Append(cur, s[1]))

Split(s, c) == SplitFrom(s, c, <<>>)

\* s1 + sep + s2 + ... for a sequence of strings
RECURSIVE JoinWith(_, _)
JoinWith(parts, sep) ==
    IF parts = <<>> THEN <<>>
    ELSE IF Len(parts) = 1 THEN parts[1]
    ELSE parts[1] \o <<sep>> \o JoinWith(Tail(parts), sep)

\* Path::file_name: the last non-empty segment, None when there is none
FileName(p) ==
    LET segs == SelectSeq(Split(p, "/"), LAMBDA x : x # <<>>)
    IN  IF segs = <<>> THEN None ELSE Some(segs[Len(segs)])

\* Path::extension: what follows the last '.' of the file name, None when the
\* name has no '.' or only a leading one
Extension(p) ==
    LET n == FileName(p)
        parts == IF IsSome(n) THEN Split(Unwrap(n), ".") ELSE <<>>
    IN  IF Len(parts) < 2 \/ (Len(parts) = 2 /\ parts[1] = <<>>) THEN None
        ELSE Some(parts[Len(parts)])

\* Path::file_stem: the file name without its extension
FileStem(p) ==
    LET n == FileName(p)
        parts == IF IsSome(n) THEN Split(Unwrap(n), ".") ELSE <<>>
    IN  IF ~IsSome(n) THEN None
        ELSE IF ~IsSome(Extension(p)) THEN n
        ELSE Some(JoinWith(SubSeq(parts, 1, Len(parts) - 1), "."))

WorkspacePath == <<"/", "w">>

FileA == <<"/", "w", "/", "s", "/", "a", ".", "r", "s">>

FileB == <<"/", "w", "/", "b", ".", "r", "s">>

\* the order in which the directory walk meets the source files
AllFiles == <<FileA, FileB>>

FileSet == {AllFiles[i] : i \in 1..Len(AllFiles)}

to_relative_path(workspace_path, file_path) ==
    LET stripped == IF StartsWith(file_path, workspace_path)
                    THEN SubSeq(file_path, Len(workspace_path) + 1, Len(file_path))
                    ELSE file_path
    IN  TrimStart(TrimStart(stripped, "/"), "\\")

SourceExtensions ==
    { <<"t", "s">>, <<"t", "s", "x">>, <<"j", "s">>, <<"j", "s", "x">>, <<"p", "y">>,
      <<"g", "o">>, <<"r", "s">>, <<"j", "a", "v", "a">> }

is_source_file(path) == IsSome(Extension(path)) /\ Unwrap(Extension(path)) \in SourceExtensions

detect_language(path) ==
    LET e == Extension(path)
    IN  IF ~IsSome(e) THEN "unknown"
        ELSE IF Unwrap(e) \in { <<"t", "s">>, <<"t", "s", "x">> } THEN "typescript"
        ELSE IF Unwrap(e) \in { <<"j", "s">>, <<"j", "s", "x">> } THEN "javascript"
        ELSE IF Unwrap(e) = <<"p", "y">> THEN "python"
        ELSE IF Unwrap(e) = <<"g", "o">> THEN "go"
        ELSE IF Unwrap(e) = <<"r", "s">> THEN "rust"
        ELSE IF Unwrap(e) = <<"j", "a", "v", "a">> THEN "java"
        ELSE "unknown"

---------------------------------------------------------------------------
(* The file system: per file its state, content and modification time.     *)
(* A content is the record of what the text scanners extract from it:      *)
(* line count, smell total, average function complexity, imported stems.   *)

SrcPlain == [loc |-> 100, smells |-> 0, complexity |-> 0, imports |-> <<>>]

SrcSmelly == [loc |-> 50, smells |-> 1, complexity |-> 10, imports |-> << <<"b">> >>]

Sources == {SrcPlain, SrcSmelly}

Exists(fsys, f) == fsys[f].state # "absent"

Readable(fsys, f) == fsys[f].state = "ok"

\* commands::git::walkdir
walkdir(fsys) == SelectSeq(AllFiles, LAMBDA f : Exists(fsys, f) /\ is_source_file(f))

---------------------------------------------------------------------------
(* History facts and settings *)

RelA == to_relative_path(WorkspacePath, FileA)

RelB == to_relative_path(WorkspacePath, FileB)

\* what the repository holds: commit counts, blame line counts, co-changes
GitChurn == (RelA :> 45) @@ (RelB :> 90)

GitBlame == (RelA :> (("x" :> 75) @@ ("y" :> 25))) @@ (RelB :> ("x" :> 10))

GitCoChanges ==
    [pairs |-> << <<RelA, RelB, 2>> >>,
     file_change_counts |-> (RelA :> 4) @@ (RelB :> 2)]

EmptyMap == [x \in {} |-> 0]

\* CoChangeResult::default
EmptyCoChanges == [pairs |-> <<>>, file_change_counts |-> EmptyMap]

\* the history providers that fail together: none, blame alone (no HEAD to
\* peel), all three (the repository does not open)
GitOutages == { {}, {"blame"}, {"churn", "blame", "co_changes"} }

analyze_churn(down) == IF "churn" \in down THEN Err("Git error") ELSE Ok(GitChurn)

analyze_knowledge(down) == IF "blame" \in down THEN Err("Git error") ELSE Ok(GitBlame)

analyze_co_changes(down) ==
    IF "co_changes" \in down THEN Err("Git error") ELSE Ok(GitCoChanges)

\* Result::unwrap_or_default
unwrap_or_default(r, default) == IF r.ok THEN r.val ELSE default

\* models::file_score::default_weights
default_weights ==
    [churn_rate |-> Frac(22, 100), code_smell_density |-> Frac(20, 100),
     coupling_index |-> Frac(18, 100), change_coupling |-> Frac(12, 100),
     test_coverage_gap |-> Frac(12, 100), knowledge_concentration |-> Frac(8, 100),
     cyclomatic_complexity |-> Frac(5, 100), decision_staleness |-> Frac(3, 100)]

\* serde_json::Value: a number (kept as a fraction), a string, an object
JsonNumber(v) == [type |-> "number", v |-> v]

JsonString == [type |-> "string"]

JsonObject(members) == [type |-> "object", members |-> members]

\* Value::as_f64
as_f64(value) == IF value.type = "number" THEN Some(value.v) ELSE None

\* Value::as_i64
as_i64(value) == IF value.type = "number" /\ value.v[2] = 1 THEN Some(value.v[1]) ELSE None

\* Value::as_u64
as_u64(value) ==
    IF value.type = "number" /\ value.v[2] = 1 /\ value.v[1] >= 0 THEN Some(value.v[1])
    ELSE None

\* Map::get
get(members, key) == IF key \in DOMAIN members THEN Some(members[key]) ELSE None

\* Map::insert
insert(members, key, value) == (key :> value) @@ members

\* Option::unwrap_or
unwrap_or(o, default) == IF IsSome(o) THEN Unwrap(o) ELSE default

\* f64::clamp, Ord::clamp
FracClamp(v, lo, hi) == IF FracGe(lo, v) THEN lo ELSE IF FracGe(v, hi) THEN hi ELSE v

clamp(n, lo, hi) == Max(lo, Min(n, hi))

\* the sum of the numbers among the members of an object
RECURSIVE SumNumbers(_, _)
SumNumbers(members, keys) ==
    IF keys = {} THEN Frac(0, 1)
    ELSE LET k == CHOOSE x \in keys : TRUE
         IN  FracAdd(unwrap_or(as_f64(members[k]), Frac(0, 1)),
                     SumNumbers(members, keys \ {k}))

\* settings::default_settings, the keys the analysis reads
default_settings ==
    [schema_version |-> JsonNumber(Frac(2, 1)),
     gitHistoryDays |-> JsonNumber(Frac(90, 1)),
     weights |-> JsonObject([k \in DOMAIN default_weights |-> JsonNumber(default_weights[k])])]

\* settings::deep_merge_defaults: a key that is missing gets its default, an
\* object is merged member by member, anything else is kept
deep_merge_defaults(target, defaults) ==
    [key \in DOMAIN target \cup DOMAIN defaults |->
        IF key \notin DOMAIN target THEN defaults[key]
        ELSE IF /\ key \in DOMAIN defaults
                /\ target[key].type = "object"
                /\ defaults[key].type = "object"
        THEN JsonObject([k \in DOMAIN target[key].members \cup DOMAIN defaults[key].members |->
                            IF k \in DOMAIN target[key].members THEN target[key].members[k]
                            ELSE defaults[key].members[k]])
        ELSE target[key]]

\* settings::migrate_weights_from_percentages
migrate_weights_from_percentages(settings) ==
    IF "weights" \notin DOMAIN settings \/ settings["weights"].type # "object" THEN settings
    ELSE LET weights == settings["weights"].members
             has_percentage_like_values ==
                 \E k \in DOMAIN weights :
                     ~FracGe(Frac(1, 1), unwrap_or(as_f64(weights[k]), Frac(0, 1)))
         IN  IF ~has_percentage_like_values THEN settings
             ELSE insert(settings, "weights",
                         JsonObject([k \in DOMAIN weights |->
                                        IF IsSome(as_f64(weights[k]))
                                        THEN JsonNumber(FracDiv(weights[k].v, Frac(100, 1)))
                                        ELSE weights[k]]))

\* settings::clamp_u64
clamp_u64(map, key, min, max, default) ==
    LET raw == IF IsSome(get(map, key)) THEN unwrap_or(as_u64(map[key]), default) ELSE default
    IN  insert(map, key, JsonNumber(Frac(clamp(raw, min, max), 1)))

\* every number of the object divided by the sum of them and clamped, when
\* the sum is above f64::EPSILON
normalized(members) ==
    LET sum == SumNumbers(members, DOMAIN members)
    IN  IF sum[1] > 0
        THEN [k \in DOMAIN members |->
                 IF IsSome(as_f64(members[k]))
                 THEN JsonNumber(FracClamp(FracDiv(members[k].v, sum), Frac(0, 1), Frac(1, 1)))
                 ELSE members[k]]
        ELSE members

\* settings::sanitize_settings, the keys the analysis reads
sanitize_settings(settings) ==
    LET obj == clamp_u64(settings, "gitHistoryDays", 7, 365, 90)
        weights == unwrap_or(get(obj, "weights"), JsonObject(EmptyMap))
        clamped == [k \in DOMAIN weights.members \cup DOMAIN default_weights |->
                       IF k \in DOMAIN default_weights
                       THEN JsonNumber(FracClamp(
                                IF k \in DOMAIN weights.members
                                THEN unwrap_or(as_f64(weights.members[k]), default_weights[k])
                                ELSE default_weights[k],
                                Frac(0, 1), Frac(1, 1)))
                       ELSE weights.members[k]]
    IN  IF weights.type = "object"
        THEN insert(obj, "weights", JsonObject(normalized(clamped)))
        ELSE insert(obj, "weights", default_settings["weights"])

\* settings::migrate_settings
migrate_settings(input) ==
    LET merged == deep_merge_defaults(input, default_settings)
        version == unwrap_or(as_i64(merged["schema_version"]), 0)
        migrated == IF version < 1 THEN migrate_weights_from_percentages(merged) ELSE merged
    IN  insert(sanitize_settings(migrated), "schema_version", JsonNumber(Frac(2, 1)))

\* settings::load_settings_from_disk: stored is the object settings.json
\* holds, None when there is no file or it does not parse; disk_ok is whether
\* the directory can be made and the file read and written
load_settings_from_disk(stored, disk_ok) ==
    IF ~disk_ok THEN Err("Failed to read settings.json")
    ELSE Ok(migrate_settings(unwrap_or(stored, EmptyMap)))

\* the sum of the weights of a map
RECURSIVE SumWeights(_, _)
SumWeights(weights, keys) ==
    IF keys = {} THEN Frac(0, 1)
    ELSE LET k == CHOOSE x \in keys : TRUE
         IN  FracAdd(weights[k], SumWeights(weights, keys \ {k}))

\* the defensive normalization of load_effective_analysis_settings
renormalized(weights) ==
    LET sum == SumWeights(weights, DOMAIN weights)
    IN  IF sum[1] > 0
        THEN [k \in DOMAIN weights |->
                 FracClamp(FracDiv(weights[k], sum), Frac(0, 1), Frac(1, 1))]
        ELSE default_weights

\* settings::load_effective_analysis_settings, from the settings loaded on
effective_settings(loaded) ==
    LET settings == loaded.val
        history_days == clamp(unwrap_or(as_u64(settings["gitHistoryDays"]), 90), 7, 365)
        obj == IF settings["weights"].type = "object" THEN settings["weights"].members
               ELSE EmptyMap
        weights == [k \in DOMAIN default_weights
                            \cup {x \in DOMAIN obj : IsSome(as_f64(obj[x]))} |->
                       IF k \in DOMAIN obj /\ IsSome(as_f64(obj[k])) THEN obj[k].v
                       ELSE default_weights[k]]
    IN  IF ~loaded.ok THEN loaded
        ELSE Ok([history_days |-> history_days,
                 weights |-> renormalized(weights)])

\* settings::load_effective_analysis_settings
load_effective_analysis_settings(stored, disk_ok) ==
    effective_settings(load_settings_from_disk(stored, disk_ok))

\* a weight as the whole number of hundredths it is
Hundredths(weight) == (weight[1] * 100) \div weight[2]

\* commands::scoring::load_analysis_inputs, from the settings loaded on
analysis_inputs(settings, down) ==
    IF ~settings.ok THEN settings
    ELSE Ok([history_days |-> settings.val.history_days,
             weights |-> [k \in DOMAIN settings.val.weights |->
                             Hundredths(settings.val.weights[k])],
             churn |-> unwrap_or_default(analyze_churn(down), EmptyMap),
             blame |-> unwrap_or_default(analyze_knowledge(down), EmptyMap),
             co_changes |-> unwrap_or_default(analyze_co_changes(down), EmptyCoChanges)])

\* commands::scoring::load_analysis_inputs; the settings file of the
\* workspaces scanned holds the defaults
load_analysis_inputs(settings_ok, down) ==
    analysis_inputs(load_effective_analysis_settings(Some(default_settings), settings_ok), down)

---------------------------------------------------------------------------
(* Signal analyzers *)

\* a faulty variant: the score is not capped at 100
compute_file_churn_uncapped(churn_data, relative_path, history_days) ==
    LET count == IF relative_path \in DOMAIN churn_data THEN churn_data[relative_path] ELSE 0
    IN  FracMul(Frac(count, Max(history_days, 1)), Frac(100, 1))

\* analysis::churn::compute_file_churn
compute_file_churn(churn_data, relative_path, history_days) ==
    LET count == IF relative_path \in DOMAIN churn_data THEN churn_data[relative_path] ELSE 0
        daily_rate == Frac(count, Max(history_days, 1))
    IN  FracMin(FracMul(daily_rate, Frac(100, 1)), Frac(100, 1))

\* a faulty variant: smells per hundred lines
compute_smell_percent(smells_total, loc) ==
    IF loc = 0 THEN Frac(0, 1)
    ELSE FracMin(FracMul(Frac(smells_total, loc), Frac(100, 1)), Frac(100, 1))

\* commands::scoring::compute_smell_score
compute_smell_score(smells_total, loc) ==
    IF loc = 0 THEN Frac(0, 1)
    ELSE FracMin(FracMul(Frac(smells_total, loc), Frac(5000, 1)), Frac(100, 1))

\* Vec::truncate, Iterator::take
truncate(s, len) == SubSeq(s, 1, Min(len, Len(s)))

MaxOver(S) == IF S = {} THEN 0 ELSE CHOOSE m \in S : \A x \in S : x <= m

RECURSIVE SumOver(_, _)
SumOver(f, S) ==
    IF S = {} THEN 0 ELSE LET x == CHOOSE y \in S : TRUE IN f[x] + SumOver(f, S \ {x})

\* a faulty variant: the score is the top author's share itself
compute_knowledge_share(blame_data, relative_path) ==
    IF relative_path \notin DOMAIN blame_data THEN Frac(0, 1)
    ELSE LET authors == blame_data[relative_path]
             total_lines == SumOver(authors, DOMAIN authors)
             max_lines == MaxOver({authors[a] : a \in DOMAIN authors})
         IN  IF total_lines = 0 THEN Frac(0, 1)
             ELSE FracMul(Frac(max_lines, total_lines), Frac(100, 1))

\* analysis::knowledge::compute_knowledge_concentration
compute_knowledge_concentration(blame_data, relative_path) ==
    IF relative_path \notin DOMAIN blame_data THEN Frac(0, 1)
    ELSE LET authors == blame_data[relative_path]
             total_lines == SumOver(authors, DOMAIN authors)
             max_lines == MaxOver({authors[a] : a \in DOMAIN authors})
             concentration == Frac(max_lines, total_lines)
         IN  IF total_lines = 0 THEN Frac(0, 1)
             ELSE IF FracGe(Frac(1, 2), concentration) THEN Frac(0, 1)
             ELSE FracMin(FracMul(FracDiv(FracSub(concentration, Frac(1, 2)), Frac(1, 2)),
                                  Frac(100, 1)),
                          Frac(100, 1))

\* ratios.sort_by(|a, b| b.partial_cmp(a)): largest first
RECURSIVE SortDesc(_)
SortDesc(s) ==
    IF s = <<>> THEN <<>>
    ELSE LET rest == SortDesc(Tail(s))
         IN  SelectSeq(rest, LAMBDA r : ~FracGe(s[1], r))
             \o <<s[1]>>
             \o SelectSeq(rest, LAMBDA r : FracGe(s[1], r))

\* (co_count / min(changes_a, changes_b).max(1)).min(1.0)
coupling_ratio(triple, counts) ==
    LET changes_a == IF triple[1] \in DOMAIN counts THEN counts[triple[1]] ELSE 1
        changes_b == IF triple[2] \in DOMAIN counts THEN counts[triple[2]] ELSE 1
        min_changes == Max(Min(changes_a, changes_b), 1)
    IN  FracMin(Frac(triple[3], min_changes), Frac(1, 1))

\* a faulty variant: every ratio is averaged, not the five largest
compute_change_coupling_all(relative_path, co_change_result) ==
    LET mine == SelectSeq(co_change_result.pairs,
                          LAMBDA p : p[1] = relative_path \/ p[2] = relative_path)
        ratios == [i \in 1..Len(mine) |->
                     coupling_ratio(mine[i], co_change_result.file_change_counts)]
        avg == FracDiv(FracSum(ratios), Frac(Len(ratios), 1))
    IN  IF ratios = <<>> THEN Frac(0, 1)
        ELSE FracMin(FracMul(avg, Frac(100, 1)), Frac(100, 1))

\* analysis::coupling::compute_change_coupling
compute_change_coupling(relative_path, co_change_result) ==
    LET mine == SelectSeq(co_change_result.pairs,
                          LAMBDA p : p[1] = relative_path \/ p[2] = relative_path)
        ratios == [i \in 1..Len(mine) |->
                     coupling_ratio(mine[i], co_change_result.file_change_counts)]
        top_n == truncate(SortDesc(ratios), 5)
        avg == FracDiv(FracSum(top_n), Frac(Len(top_n), 1))
    IN  IF ratios = <<>> THEN Frac(0, 1)
        ELSE FracMin(FracMul(avg, Frac(100, 1)), Frac(100, 1))

\* the relative path compute_coupling_index keys its graph by:
\* strip_prefix(workspace_path).unwrap_or(..).trim_start_matches('/')
coupling_rel(workspace_path, file_path) ==
    TrimStart(IF StartsWith(file_path, workspace_path)
              THEN SubSeq(file_path, Len(workspace_path) + 1, Len(file_path))
              ELSE file_path, "/")

\* the first walked file another file's import resolves to
ImportTarget(files, workspace_path, rel, import_path) ==
    LET hits == SelectSeq(files,
                    LAMBDA o : /\ FileStem(coupling_rel(workspace_path, o)) = FileStem(import_path)
                               /\ coupling_rel(workspace_path, o) # rel)
    IN  IF hits = <<>> THEN None ELSE Some(coupling_rel(workspace_path, hits[1]))

\* out_degree: the imports a readable file makes
out_degree(files, workspace_path, fsys, r) ==
    SumSeq([i \in 1..Len(files) |->
              IF Readable(fsys, files[i]) /\ coupling_rel(workspace_path, files[i]) = r
              THEN Len(fsys[files[i]].src.imports) ELSE 0])

\* in_degree: the imports of readable files that resolve to r
in_degree(files, workspace_path, fsys, r) ==
    SumSeq([i \in 1..Len(files) |->
              IF Readable(fsys, files[i])
              THEN Cardinality({k \in 1..Len(fsys[files[i]].src.imports) :
                      ImportTarget(files, workspace_path,
                                   coupling_rel(workspace_path, files[i]),
                                   fsys[files[i]].src.imports[k]) = Some(r)})
              ELSE 0])

degree(files, workspace_path, fsys, r) ==
    in_degree(files, workspace_path, fsys, r) + out_degree(files, workspace_path, fsys, r)

\* the largest degree over the walked files
max_degree(files, workspace_path, fsys) ==
    MaxOver({degree(files, workspace_path, fsys, coupling_rel(workspace_path, files[i])) :
                i \in 1..Len(files)})

\* a faulty variant: the degree is divided by the largest degree once
coupling_of_undoubled(total, largest) ==
    IF largest = 0 THEN Frac(0, 1)
    ELSE FracMin(FracMul(Frac(total, largest), Frac(100, 1)), Frac(100, 1))

coupling_of(total, largest) ==
    IF largest = 0 THEN Frac(0, 1)
    ELSE FracMin(FracMul(Frac(total, 2 * largest), Frac(100, 1)), Frac(100, 1))

\* analysis::coupling::compute_coupling_index
compute_coupling_index(relative_path, workspace_path, fsys) ==
    coupling_of(degree(walkdir(fsys), workspace_path, fsys, relative_path),
                max_degree(walkdir(fsys), workspace_path, fsys))

\* Path::parent of a relative path: what precedes its last segment
Parent(p) ==
    LET segs == Split(p, "/") IN JoinWith(SubSeq(segs, 1, Len(segs) - 1), "/")

\* Path::join: an absolute path replaces the base
PathJoin(base, p) ==
    IF p # <<>> /\ p[1] = "/" THEN p
    ELSE IF base = <<>> THEN p
    ELSE IF base[Len(base)] = "/" THEN base \o p
    ELSE base \o <<"/">> \o p

\* Option<&OsStr>::unwrap_or_default
unwrap_or_empty(o) == IF IsSome(o) THEN Unwrap(o) ELSE <<>>

\* str::contains
Contains(s, sub) ==
    \E i \in 1..(Len(s) - Len(sub) + 1) : SubSeq(s, i, i + Len(sub) - 1) = sub

\* The files of a workspace other than its sources: coverage report, test
\* files, decision records.  path |-> [readable, text, review], review being
\* the age in days of the review date parse_review_date finds in the text.
NoOtherFiles == [path \in {} |-> [readable |-> FALSE, text |-> <<>>, review |-> None]]

\* Path::exists
path_exists(others, path) == path \in DOMAIN others

\* std::fs::read_to_string
read_to_string(others, path) ==
    IF path \in DOMAIN others /\ others[path].readable THEN Ok(others[path])
    ELSE Err("Failed to read")

\* analysis::coverage::parse_lcov_coverage
parse_lcov_coverage(others, lcov_path, relative_path) ==
    LET content == read_to_string(others, lcov_path)
    IN  IF content.ok /\ Contains(content.val.text, relative_path) THEN Frac(30, 1)
        ELSE Frac(80, 1)

\* the test-file naming patterns of compute_coverage_gap
test_patterns(relative_path) ==
    LET stem == unwrap_or_empty(FileStem(relative_path))
        ext == unwrap_or_empty(Extension(relative_path))
        parent == Parent(relative_path)
    IN  << PathJoin(parent, stem \o <<".", "t", "e", "s", "t", ".">> \o ext),
           PathJoin(parent, stem \o <<".", "s", "p", "e", "c", ".">> \o ext),
           PathJoin(parent, <<"t", "e", "s", "t", "_">> \o stem \o <<".">> \o ext),
           PathJoin(parent, stem \o <<"_", "t", "e", "s", "t", ".">> \o ext),
           PathJoin(<<"t", "e", "s", "t", "s">>, <<"t", "e", "s", "t", "_">> \o stem \o <<".">> \o ext),
           PathJoin(<<"t", "e", "s", "t">>, stem \o <<"_", "t", "e", "s", "t", ".">> \o ext),
           PathJoin(PathJoin(parent, <<"_", "_", "t", "e", "s", "t", "s", "_", "_">>), stem \o <<".", "t", "e", "s", "t", ".">> \o ext) >>

\* analysis::coverage::compute_coverage_gap
compute_coverage_gap(relative_path, workspace_path, others) ==
    LET lcov_path == PathJoin(workspace_path, <<"c", "o", "v", "e", "r", "a", "g", "e", "/", "l", "c", "o", "v", ".", "i", "n", "f", "o">>)
    IN  IF path_exists(others, lcov_path)
        THEN parse_lcov_coverage(others, lcov_path, relative_path)
        ELSE IF \E i \in 1..Len(test_patterns(relative_path)) :
                   path_exists(others, PathJoin(workspace_path, test_patterns(relative_path)[i]))
        THEN Frac(30, 1)
        ELSE Frac(80, 1)

\* analysis::staleness::parse_review_date
parse_review_date(content) == content.review

\* the decision records compute_staleness looks for, in the order it looks
adr_patterns(relative_path, workspace_path) ==
    LET adrs_dir == PathJoin(workspace_path, <<".", "d", "e", "b", "t", "e", "n", "g", "i", "n", "e", "/", "a", "d", "r", "s">>)
        file_stem == unwrap_or_empty(FileStem(relative_path))
        file_dir == PathJoin(workspace_path, Parent(relative_path))
    IN  << PathJoin(adrs_dir, file_stem \o <<".", "a", "d", "r", ".", "m", "d">>),
           PathJoin(adrs_dir, file_stem \o <<".", "m", "d">>),
           PathJoin(file_dir, file_stem \o <<".", "a", "d", "r", ".", "m", "d">>) >>

\* a faulty variant: the interpolation runs over 180 days
staleness_of_days_180(days_since_review) ==
    IF days_since_review < 30 THEN Frac(0, 1)
    ELSE IF days_since_review > 180 THEN Frac(100, 1)
    ELSE FracMin(FracMul(Frac(days_since_review - 30, 180), Frac(100, 1)), Frac(100, 1))

\* the score of a decision record reviewed that many days ago
staleness_of_days(days_since_review) ==
    IF days_since_review < 30 THEN Frac(0, 1)
    ELSE IF days_since_review > 180 THEN Frac(100, 1)
    ELSE FracMin(FracMul(Frac(days_since_review - 30, 150), Frac(100, 1)), Frac(100, 1))

\* analysis::staleness::compute_staleness
compute_staleness(relative_path, workspace_path, smell_score, others) ==
    LET candidates == adr_patterns(relative_path, workspace_path)
        found == {i \in 1..Len(candidates) : path_exists(others, candidates[i])}
    IN  IF found # {}
        THEN LET adr_path == candidates[CHOOSE k \in found : \A j \in found : k <= j]
                 content == read_to_string(others, adr_path)
             IN  IF content.ok /\ IsSome(parse_review_date(content.val))
                 THEN staleness_of_days(Unwrap(parse_review_date(content.val)))
                 ELSE Frac(50, 1)
        ELSE IF ~FracGe(Frac(30, 1), smell_score) THEN Frac(50, 1)
        ELSE Frac(0, 1)

---------------------------------------------------------------------------
(* Score aggregator *)

ComponentKeys ==
    <<"churn_rate", "code_smell_density", "coupling_index", "change_coupling",
      "test_coverage_gap", "knowledge_concentration", "cyclomatic_complexity",
      "decision_staleness">>

\* HashMap::get(key).unwrap_or(default)
Weight(w, key, default) == IF key \in DOMAIN w THEN w[key] ELSE default

ComponentScore(raw, weight, details) ==
    [raw_score |-> raw, weight |-> weight, contribution |-> raw * weight, details |-> details]

\* the sum score_file takes over the eight contributions
SumContributions(c) ==
    c.churn_rate.contribution + c.code_smell_density.contribution
    + c.coupling_index.contribution + c.change_coupling.contribution
    + c.test_coverage_gap.contribution + c.knowledge_concentration.contribution
    + c.cyclomatic_complexity.contribution + c.decision_staleness.contribution

\* a faulty variant: the composite is recomputed from seven raw scores and
\* the default weights, decision staleness left out
composite_of_raw(c) ==
    c.churn_rate.raw_score * 22 + c.code_smell_density.raw_score * 20
    + c.coupling_index.raw_score * 18 + c.change_coupling.raw_score * 12
    + c.test_coverage_gap.raw_score * 12 + c.knowledge_concentration.raw_score * 8
    + c.cyclomatic_complexity.raw_score * 5

composite_of(c) == SumContributions(c)

\* commands::scoring::score_file, in a workspace that holds no coverage
\* report, no test files and no decision records
\* the FileScore score_file builds
file_score(file_path, relative_path, components, loc, lang, last_modified) ==
    [path |-> file_path,
     relative_path |-> relative_path,
     composite_score |-> composite_of(components),
     components |-> components,
     loc |-> loc,
     language |-> lang,
     last_modified |-> last_modified,
     supervision_status |-> "none"]

score_file(workspace_path, file_path, inputs, fsys) ==
    IF ~Readable(fsys, file_path) THEN Err("Failed to read")
    ELSE
    LET source == fsys[file_path].src
        relative_path == to_relative_path(workspace_path, file_path)
        lang == detect_language(file_path)
        loc == source.loc
        last_modified == fsys[file_path].mtime
        churn_raw == Points(compute_file_churn(inputs.churn, relative_path, inputs.history_days))
        smell_score == compute_smell_score(source.smells, loc)
        smell_raw == Points(smell_score)
        coupling_raw == Points(compute_coupling_index(relative_path, workspace_path, fsys))
        change_coupling_raw == Points(compute_change_coupling(relative_path, inputs.co_changes))
        coverage_raw == Points(compute_coverage_gap(relative_path, workspace_path, NoOtherFiles))
        knowledge_raw == Points(compute_knowledge_concentration(inputs.blame, relative_path))
        complexity_raw == Min((source.complexity * 100) \div 20, 100)
        staleness_raw ==
            Points(compute_staleness(relative_path, workspace_path, smell_score, NoOtherFiles))
        w == inputs.weights
        components ==
            [churn_rate |-> ComponentScore(churn_raw, Weight(w, "churn_rate", 22), <<>>),
             code_smell_density |->
                 ComponentScore(smell_raw, Weight(w, "code_smell_density", 20),
                                << <<source.smells, "smells in", loc, "LOC">> >>),
             coupling_index |-> ComponentScore(coupling_raw, Weight(w, "coupling_index", 18), <<>>),
             change_coupling |->
                 ComponentScore(change_coupling_raw, Weight(w, "change_coupling", 12), <<>>),
             test_coverage_gap |->
                 ComponentScore(coverage_raw, Weight(w, "test_coverage_gap", 12), <<>>),
             knowledge_concentration |->
                 ComponentScore(knowledge_raw, Weight(w, "knowledge_concentration", 8), <<>>),
             cyclomatic_complexity |->
                 ComponentScore(complexity_raw, Weight(w, "cyclomatic_complexity", 5),
                                << <<"avg complexity:", source.complexity>> >>),
             decision_staleness |->
                 ComponentScore(staleness_raw, Weight(w, "decision_staleness", 3), <<>>)]
    IN  Ok(file_score(file_path, relative_path, components, loc, lang, last_modified))

---------------------------------------------------------------------------
(* The durable store: table file_scores, one row per absolute path *)

\* serde_json::to_string(&ScoreComponents): the object's members in order
to_json(components) == [i \in 1..Len(ComponentKeys) |-> <<ComponentKeys[i], components[ComponentKeys[i]]>>]

\* the column default and the back-filled value of score_data_json: "{}"
EmptyJsonObject == <<>>

\* serde_json::from_str::<ScoreComponents>: every member must be present
from_json(blob) ==
    IF \A i \in 1..Len(ComponentKeys) : \E j \in 1..Len(blob) : blob[j][1] = ComponentKeys[i]
    THEN Ok([k \in {ComponentKeys[i] : i \in 1..Len(ComponentKeys)} |->
                (CHOOSE m \in {blob[j] : j \in 1..Len(blob)} : m[1] = k)[2]])
    ELSE Err("missing field")

\* commands::db::empty_components
empty_components ==
    LET zero == [raw_score |-> 0, weight |-> 0, contribution |-> 0, details |-> <<>>]
    IN  [k \in {ComponentKeys[i] : i \in 1..Len(ComponentKeys)} |-> zero]

\* a faulty variant: the row keeps the previous composite score
upsert_row_stale_composite(table, file, now) ==
    [table EXCEPT ![file.path] =
        Some([path |-> file.path,
              relative_path |-> file.relative_path,
              composite_score |-> IF IsSome(table[file.path])
                                  THEN Unwrap(table[file.path]).composite_score ELSE 0,
              loc |-> file.loc,
              language |-> file.language,
              last_modified |-> file.last_modified,
              supervision_status |-> file.supervision_status,
              mtime_cached |-> Some(file.last_modified),
              score_data_json |-> to_json(file.components),
              updated_at |-> now])]

\* commands::db::upsert_file_score_with_conn: INSERT ... ON CONFLICT(path) DO UPDATE
upsert_file_score_with_conn(table, file, now) ==
    [table EXCEPT ![file.path] =
        Some([path |-> file.path,
              relative_path |-> file.relative_path,
              composite_score |-> file.composite_score,
              loc |-> file.loc,
              language |-> file.language,
              last_modified |-> file.last_modified,
              supervision_status |-> file.supervision_status,
              mtime_cached |-> Some(file.last_modified),
              score_data_json |-> to_json(file.components),
              updated_at |-> now])]

\* a row written before the columns mtime_cached and score_data_json existed,
\* as apply_migration_2 leaves it: mtime_cached NULL, the blob "{}"
LegacyRow(file_path, score) ==
    [path |-> file_path,
     relative_path |-> to_relative_path(WorkspacePath, file_path),
     composite_score |-> score,
     loc |-> 100,
     language |-> detect_language(file_path),
     last_modified |-> 0,
     supervision_status |-> "none",
     mtime_cached |-> None,
     score_data_json |-> EmptyJsonObject,
     updated_at |-> 0]

\* commands::db::upsert_file_scores: every file in one transaction
RECURSIVE upsert_file_scores(_, _, _)
upsert_file_scores(table, files, now) ==
    IF files = <<>> THEN table
    ELSE upsert_file_scores(upsert_file_score_with_conn(table, files[1], now), Tail(files), now)

\* commands::db::load_cached_file_mtime: no row is Ok(None); a NULL column
\* does not convert to i64
load_cached_file_mtime(table, file_path) ==
    IF ~IsSome(table[file_path]) THEN Ok(None)
    ELSE IF ~IsSome(Unwrap(table[file_path]).mtime_cached) THEN Err("InvalidColumnType")
    ELSE Ok(Unwrap(table[file_path]).mtime_cached)

\* commands::db::load_cached_file_score
load_cached_file_score(table, file_path) ==
    IF ~IsSome(table[file_path]) THEN None
    ELSE LET row == Unwrap(table[file_path])
             parsed == from_json(row.score_data_json)
         IN  Some([path |-> row.path,
                   relative_path |-> row.relative_path,
                   composite_score |-> row.composite_score,
                   components |-> IF parsed.ok THEN parsed.val ELSE empty_components,
                   loc |-> row.loc,
                   language |-> row.language,
                   last_modified |-> row.last_modified,
                   supervision_status |-> row.supervision_status])

---------------------------------------------------------------------------
(* The in-memory cache: AnalysisResult and heatmap *)

CountHigh(files) == Len(SelectSeq(files, LAMBDA f : f.composite_score > 65 * 100))

TotalScore(files) == SumSeq([i \in 1..Len(files) |-> files[i].composite_score])

\* a faulty variant: a file at exactly 65 counts as high debt
build_analysis_result_ge(files, duration_ms) ==
    [workspace_score |-> IF Len(files) = 0 THEN <<0, 1>> ELSE Frac(TotalScore(files), Len(files)),
     file_count |-> Len(files),
     high_debt_count |-> Len(SelectSeq(files, LAMBDA f : f.composite_score >= 65 * 100)),
     files |-> files,
     duration_ms |-> duration_ms]

\* commands::scoring::build_analysis_result
build_analysis_result(files, duration_ms) ==
    [workspace_score |-> IF Len(files) = 0 THEN <<0, 1>> ELSE Frac(TotalScore(files), Len(files)),
     file_count |-> Len(files),
     high_debt_count |-> CountHigh(files),
     files |-> files,
     duration_ms |-> duration_ms]

Leaf(name, file) ==
    [name |-> name, path |-> file.relative_path, score |-> Some(file.composite_score),
     loc |-> Some(file.loc), children |-> None]

Dir(name, path, children) ==
    [name |-> name, path |-> path, score |-> None, loc |-> None, children |-> Some(children)]

\* Option::get_or_insert_with(Vec::new)
ChildrenOf(node) == IF IsSome(node.children) THEN Unwrap(node.children) ELSE <<>>

next_prefix_of(prefix, dir_name) ==
    IF prefix = <<>> THEN dir_name ELSE prefix \o <<"/">> \o dir_name

\* commands::scoring::insert_into_tree
RECURSIVE insert_into_tree(_, _, _, _)
insert_into_tree(node, parts, file, prefix) ==
    IF parts = <<>> THEN node
    ELSE IF Len(parts) = 1
    THEN [node EXCEPT !.children = Some(Append(ChildrenOf(node), Leaf(parts[1], file)))]
    ELSE
    LET dir_name == parts[1]
        next_prefix == next_prefix_of(prefix, dir_name)
        children == ChildrenOf(node)
        found == {i \in 1..Len(children) :
                     children[i].name = dir_name /\ IsSome(children[i].children)}
    IN  IF found # {}
        THEN LET i == CHOOSE k \in found : \A j \in found : k <= j
             IN  [node EXCEPT !.children =
                     Some([children EXCEPT ![i] =
                              insert_into_tree(children[i], Tail(parts), file, next_prefix)])]
        ELSE [node EXCEPT !.children =
                 Some(Append(children,
                             insert_into_tree(Dir(dir_name, next_prefix, <<>>),
                                              Tail(parts), file, next_prefix)))]

RECURSIVE InsertAll(_, _)
InsertAll(root, files) ==
    IF files = <<>> THEN root
    ELSE InsertAll(insert_into_tree(root, Split(files[1].relative_path, "/"), files[1], <<>>),
                   Tail(files))

\* commands::scoring::build_heatmap_tree
build_heatmap_tree(workspace_path, files) ==
    LET root_name == IF IsSome(FileName(workspace_path))
                     THEN Unwrap(FileName(workspace_path)) ELSE <<"r", "o", "o", "t">>
    IN  InsertAll(Dir(root_name, workspace_path, <<>>), files)

\* if let Ok(mut lock) = cache.lock() { .. }: a poisoned lock is not taken and
\* the cache stays as it is
if_locked(lock_poisoned, c, updated) == IF lock_poisoned THEN c ELSE updated

\* cache.lock().map_err(|_| "Cache lock error")?
lock_or_err(lock_poisoned, val) == IF lock_poisoned THEN Err("Cache lock error") ELSE val

\* AnalysisCache::default
EmptyCache == [workspace_path |-> None, result |-> None, heatmap |-> None]

\* the first entry a patch replaces
FindExisting(files, file) ==
    LET hits == {i \in 1..Len(files) :
                    files[i].path = file.path \/ files[i].relative_path = file.relative_path}
    IN  IF hits = {} THEN 0 ELSE CHOOSE k \in hits : \A j \in hits : k <= j

\* a faulty variant: the file is patched into whatever result is cached, for
\* whichever workspace
patch_cached_result_any_workspace(c, workspace_path, file) ==
    LET result == IF IsSome(c.result) THEN Unwrap(c.result)
                  ELSE [workspace_score |-> <<0, 1>>, file_count |-> 0,
                        high_debt_count |-> 0, files |-> <<>>, duration_ms |-> 0]
        i == FindExisting(result.files, file)
        files == IF i # 0 THEN [result.files EXCEPT ![i] = file]
                 ELSE Append(result.files, file)
    IN  [workspace_path |-> Some(workspace_path),
         result |-> Some([workspace_score |-> Frac(TotalScore(files), Len(files)),
                          file_count |-> Len(files),
                          high_debt_count |-> CountHigh(files),
                          files |-> files,
                          duration_ms |-> result.duration_ms]),
         heatmap |-> Some(build_heatmap_tree(workspace_path, files))]

\* commands::scoring::patch_cached_result, with the lock held
patch_cached_result(c, workspace_path, file) ==
    IF c.workspace_path # Some(workspace_path)
    THEN [workspace_path |-> Some(workspace_path),
          result |-> Some([workspace_score |-> Frac(file.composite_score, 1),
                           file_count |-> 1,
                           high_debt_count |-> IF file.composite_score > 65 * 100 THEN 1 ELSE 0,
                           files |-> <<file>>,
                           duration_ms |-> 0]),
          heatmap |-> Some(build_heatmap_tree(workspace_path, <<file>>))]
    ELSE LET result == IF IsSome(c.result) THEN Unwrap(c.result)
                       ELSE [workspace_score |-> <<0, 1>>, file_count |-> 0,
                             high_debt_count |-> 0, files |-> <<>>, duration_ms |-> 0]
             i == FindExisting(result.files, file)
             files == IF i # 0 THEN [result.files EXCEPT ![i] = file]
                      ELSE Append(result.files, file)
         IN  [workspace_path |-> c.workspace_path,
              result |-> Some([workspace_score |->
                                   IF files = <<>> THEN <<0, 1>>
                                   ELSE Frac(TotalScore(files), Len(files)),
                               file_count |-> Len(files),
                               high_debt_count |-> CountHigh(files),
                               files |-> files,
                               duration_ms |-> result.duration_ms]),
              heatmap |-> Some(build_heatmap_tree(workspace_path, files))]

\* a faulty variant: the entries the cache holds for the result's files are
\* kept over those of the result
update_cache_merged(c, workspace_path, result) ==
    LET kept == [i \in 1..Len(result.files) |->
                    IF IsSome(c.result) /\ FindExisting(Unwrap(c.result).files, result.files[i]) # 0
                    THEN Unwrap(c.result).files[FindExisting(Unwrap(c.result).files, result.files[i])]
                    ELSE result.files[i]]
    IN  [workspace_path |-> Some(workspace_path),
         heatmap |-> Some(build_heatmap_tree(workspace_path, kept)),
         result |-> Some([result EXCEPT !.files = kept])]

\* a faulty variant: the result is published without its heatmap
update_cache_result_only(c, workspace_path, result) ==
    [c EXCEPT !.workspace_path = Some(workspace_path), !.result = Some(result)]

\* commands::scoring::update_cache, with the lock held
update_cache(c, workspace_path, result) ==
    [workspace_path |-> Some(workspace_path),
     heatmap |-> Some(build_heatmap_tree(workspace_path, result.files)),
     result |-> Some(result)]

\* commands::scoring::get_heatmap_data
get_heatmap_data(c) ==
    IF IsSome(c.heatmap) THEN Ok(Unwrap(c.heatmap)) ELSE Err("No analysis data available")

\* commands::scoring::get_file_breakdown
get_file_breakdown(c, path) ==
    IF ~IsSome(c.result) THEN Err("No analysis data")
    ELSE LET files == Unwrap(c.result).files
             hits == {i \in 1..Len(files) :
                         files[i].relative_path = path \/ files[i].path = path}
         IN  IF hits = {} THEN Err("File not found")
             ELSE LET file == files[CHOOSE k \in hits : \A j \in hits : k <= j]
                  IN  Ok([path |-> file.relative_path,
                          composite_score |-> file.composite_score,
                          components |->
                              [i \in 1..Len(ComponentKeys) |->
                                  [name |-> ComponentKeys[i],
                                   raw_score |-> file.components[ComponentKeys[i]].raw_score,
                                   weight |-> file.components[ComponentKeys[i]].weight,
                                   contribution |->
                                       file.components[ComponentKeys[i]].contribution,
                                   details |-> file.components[ComponentKeys[i]].details]]])

\* slice::sort_by(|a, b| b.co_change_count.cmp(&a.co_change_count)): largest
\* count first, pairs of equal count in the order they had
RECURSIVE sorted_from(_, _)
sorted_from(pairs, counts) ==
    IF counts = {} THEN <<>>
    ELSE LET top == CHOOSE n \in counts : \A m \in counts : m <= n
         IN  SelectSeq(pairs, LAMBDA p : p.co_change_count = top)
             \o sorted_from(pairs, counts \ {top})

sort_by_count_desc(pairs) ==
    sorted_from(pairs, {pairs[i].co_change_count : i \in 1..Len(pairs)})

\* std::fs::read_to_string(workspace_path/a).map(|src| src.contains(stem))
\* .unwrap_or(false); of the words of a source its imported stems are kept
has_import_link(workspace_path, a, b, fsys) ==
    LET source_path == workspace_path \o <<"/">> \o a
        stem == FileStem(b)
    IN  /\ source_path \in DOMAIN fsys
        /\ Readable(fsys, source_path)
        /\ \E k \in 1..Len(fsys[source_path].src.imports) :
               Some(fsys[source_path].src.imports[k]) = stem

\* the CouplingPair of a co-change triple; the ratio is kept as a fraction
coupling_pair(workspace_path, triple, counts, fsys) ==
        [file_a |-> triple[1],
         file_b |-> triple[2],
         coupling_ratio |-> coupling_ratio(triple, counts),
         co_change_count |-> triple[3],
         has_import_link |-> has_import_link(workspace_path, triple[1], triple[2], fsys)]

\* a faulty variant: the pairs are cut to 200 before they are sorted
get_change_couplings_cut_first(workspace_path, threshold, co_change_result, c, fsys) ==
    LET min_threshold == IF IsSome(threshold) THEN Unwrap(threshold) ELSE Frac(5, 100)
        all_files == IF IsSome(c.result)
                     THEN {Unwrap(c.result).files[i].relative_path :
                              i \in 1..Len(Unwrap(c.result).files)}
                     ELSE {}
        counted == SelectSeq(co_change_result.pairs, LAMBDA t : t[3] >= 2)
        mapped == [i \in 1..Len(counted) |->
                     coupling_pair(workspace_path, counted[i],
                                   co_change_result.file_change_counts, fsys)]
        pairs == SelectSeq(mapped,
                    LAMBDA p : /\ FracGe(p.coupling_ratio, min_threshold)
                               /\ \/ all_files = {}
                                  \/ p.file_a \in all_files
                                  \/ p.file_b \in all_files)
    IN  Ok(sort_by_count_desc(truncate(pairs, 200)))

\* commands::scoring::get_change_couplings, from the lock on: threshold is an
\* Option of a fraction
get_change_couplings(workspace_path, threshold, co_change_result, c, fsys) ==
    LET min_threshold == IF IsSome(threshold) THEN Unwrap(threshold) ELSE Frac(5, 100)
        all_files == IF IsSome(c.result)
                     THEN {Unwrap(c.result).files[i].relative_path :
                              i \in 1..Len(Unwrap(c.result).files)}
                     ELSE {}
        counted == SelectSeq(co_change_result.pairs, LAMBDA t : t[3] >= 2)
        mapped == [i \in 1..Len(counted) |->
                     coupling_pair(workspace_path, counted[i],
                                   co_change_result.file_change_counts, fsys)]
        pairs == SelectSeq(mapped,
                    LAMBDA p : /\ FracGe(p.coupling_ratio, min_threshold)
                               /\ \/ all_files = {}
                                  \/ p.file_a \in all_files
                                  \/ p.file_b \in all_files)
    IN  Ok(truncate(sort_by_count_desc(pairs), 200))

---------------------------------------------------------------------------
(* The program: one full scan, one single-file rescore and one reader at a  *)
(* time, running concurrently with each other and with changes to the       *)
(* files and to the repository.  Every step that touches the cache does so  *)
(* with the cache lock held, so it is one atomic action.                    *)

\* operations begun (scans, rescores, reads) plus changes made from outside
\* (to the file under edit, to the repository, to the clock)
MaxEvents == 4

\* Instant::elapsed of a scan, in milliseconds
Durations == {7}

VARIABLES
    fs,        \* file |-> [state, src, mtime]
    git,       \* the history providers that fail
    clock,     \* seconds since the epoch
    db,        \* table file_scores: path |-> Option<row>
    cache,     \* AnalysisCache
    scan,      \* the scan in flight: its position and locals, its last return
    progress,  \* the scan's effects in order: progress events and score attempts
    resc,      \* the rescore in flight: its position and locals, its last return
    seen,      \* what the last read returned, and whether a scan was in flight
    streak,    \* the last rescore, when it succeeded undisturbed: file, value and
               \* how many such rescores of the file ran in a row
    clean,     \* nothing changed the file system or the table since the
               \* rescore in flight began
    events,    \* operations begun and changes made so far
    poisoned,  \* the cache lock is poisoned: a holder of it panicked
    watchlist, \* table watchlist: the rows, file_path the primary key
    pins,      \* the watchlist commands in flight: position and locals, last return
    watcher    \* the forwarding thread: the channel, the time since
               \* last_event_time, the reported paths not yet answered

vars == <<fs, git, clock, db, cache, scan, progress, resc, seen, streak, clean, events,
          poisoned, watchlist, pins, watcher>>

\* the invocations of watchlist_crud that can be in flight together
Commands == {1, 2}

IdlePin == [pc |-> "idle", file_path |-> None, count |-> 0, already_pinned |-> FALSE,
            ret |-> None]

\* let mut last_event_time = Instant::now(), the channel empty
IdleWatcher == [channel |-> <<>>, since |-> 0, unanswered |-> {}, emitted |-> <<>>]

IdleScan == [pc |-> "idle", files |-> <<>>, index |-> 0, inputs |-> None, scored |-> <<>>,
             result |-> None, ret |-> None]

IdleResc == [pc |-> "idle", file |-> None, mtime |-> 0, cached |-> None, updated |-> None,
             ret |-> None]

\* all but the watchlist table
InitButWatchlist ==
    /\ fs = [f \in FileSet |-> [state |-> "ok", src |-> SrcPlain, mtime |-> 0]]
    /\ git = {}
    /\ clock = 0
    /\ db \in {[f \in FileSet |-> None],
               [f \in FileSet |-> IF f = FileA THEN Some(LegacyRow(f, 1200)) ELSE None]}
    /\ cache = EmptyCache
    /\ scan = IdleScan
    /\ progress = <<>>
    /\ resc = IdleResc
    /\ seen = None
    /\ streak = None
    /\ clean = TRUE
    /\ events = 0
    /\ poisoned = FALSE
    /\ pins = [c \in Commands |-> IdlePin]
    /\ watcher = IdleWatcher

\* CREATE TABLE IF NOT EXISTS watchlist: a new workspace has no row
Init == InitButWatchlist /\ watchlist = {}

---------------------------------------------------------------------------
(* The environment *)

Tick ==
    /\ events < MaxEvents
    /\ clock' = clock + 1
    /\ events' = events + 1
    /\ UNCHANGED <<watchlist, pins, watcher, fs, git, db, cache, scan, progress, resc, seen, streak, clean, poisoned>>

\* a file is written (its modification time becomes the current second),
\* made unreadable, or removed
ChangeFile(f, state, src) ==
    /\ events < MaxEvents
    /\ state # "ok" => src = fs[f].src
    /\ LET new == IF state = "ok" THEN [state |-> "ok", src |-> src, mtime |-> clock]
                  ELSE [fs[f] EXCEPT !.state = state]
       IN  /\ new # fs[f]
           /\ fs' = [fs EXCEPT ![f] = new]
    /\ events' = events + 1
    /\ streak' = None
    /\ clean' = FALSE
    /\ UNCHANGED <<watchlist, pins, watcher, git, clock, db, cache, scan, progress, resc, seen, poisoned>>

\* the repository's history becomes available or unavailable
ChangeGit(down) ==
    /\ events < MaxEvents
    /\ down # git
    /\ git' = down
    /\ events' = events + 1
    /\ UNCHANGED <<watchlist, pins, watcher, fs, clock, db, cache, scan, progress, resc, seen, streak, clean, poisoned>>

---------------------------------------------------------------------------
(* run_full_analysis_internal *)

\* one turn of the scan loop: the effects in the order the code makes them
scan_effects_score_first(index, total, file_path, score) ==
    << [kind |-> "score", file |-> file_path, ok |-> score.ok],
       [kind |-> "progress", current |-> index + 1, total |-> total,
        current_file |-> file_path] >>

scan_effects(index, total, file_path, score) ==
    << [kind |-> "progress", current |-> index + 1, total |-> total,
        current_file |-> file_path],
       [kind |-> "score", file |-> file_path, ok |-> score.ok] >>

\* a faulty variant: a file that fails to score aborts the scan
scan_collect_abort(scored, score) == IF score.ok THEN Ok(Append(scored, score.val)) ELSE score

\* if let Ok(score) = score_file(..) { scored_files.push(score) }
scan_collect(scored, score) == Ok(IF score.ok THEN Append(scored, score.val) ELSE scored)

\* the scan after load_analysis_inputs(..)?
scan_begun(inputs, files) ==
    IF inputs.ok
    THEN [IdleScan EXCEPT !.pc = "score", !.files = files, !.inputs = Some(inputs.val)]
    ELSE [IdleScan EXCEPT !.ret = Some(inputs)]

\* the scan after one more file, or its end
scan_collected(s, collected) ==
    IF collected.ok
    THEN [s EXCEPT !.index = s.index + 1, !.scored = collected.val]
    ELSE [IdleScan EXCEPT !.ret = Some(collected)]

\* walkdir, load_analysis_inputs(..)?
ScanBegin ==
    /\ scan.pc = "idle"
    /\ events < MaxEvents
    /\ events' = events + 1
    /\ progress' = <<>>
    /\ \E settings_ok \in BOOLEAN :
          scan' = scan_begun(load_analysis_inputs(settings_ok, git), walkdir(fs))
    /\ UNCHANGED <<watchlist, pins, watcher, fs, git, clock, db, cache, resc, seen, streak, clean, poisoned>>

\* the loop body from the file's score on
ScanScored(file_path, score) ==
    /\ progress' = progress \o scan_effects(scan.index, Len(scan.files), file_path, score)
    /\ scan' = scan_collected(scan, scan_collect(scan.scored, score))

\* the loop body for the next enumerated file
ScanFile ==
    /\ scan.pc = "score"
    /\ scan.index < Len(scan.files)
    /\ ScanScored(scan.files[scan.index + 1],
                  score_file(WorkspacePath, scan.files[scan.index + 1], Unwrap(scan.inputs), fs))
    /\ UNCHANGED <<watchlist, pins, watcher, fs, git, clock, db, cache, resc, seen, streak, clean, events, poisoned>>

\* build_analysis_result, persist_result(..)?
ScanPersist ==
    /\ scan.pc = "score"
    /\ scan.index = Len(scan.files)
    /\ \E duration_ms \in Durations, db_ok \in BOOLEAN :
          LET result == build_analysis_result(scan.scored, duration_ms)
          IN  IF db_ok
              THEN /\ db' = upsert_file_scores(db, result.files, clock)
                   /\ scan' = [scan EXCEPT !.pc = "publish", !.result = Some(result)]
                   /\ streak' = None
                   /\ clean' = FALSE
              ELSE /\ scan' = [IdleScan EXCEPT !.ret = Some(Err("DB upsert error"))]
                   /\ UNCHANGED <<db, streak, clean>>
    /\ UNCHANGED <<watchlist, pins, watcher, fs, git, clock, cache, progress, resc, seen, events, poisoned>>

\* update_cache, Ok(result)
ScanPublish ==
    /\ scan.pc = "publish"
    /\ cache' = if_locked(poisoned, cache,
                          update_cache(cache, WorkspacePath, Unwrap(scan.result)))
    /\ scan' = [IdleScan EXCEPT !.ret = Some(Ok(Unwrap(scan.result)))]
    /\ UNCHANGED <<watchlist, pins, watcher, fs, git, clock, db, progress, resc, seen, streak, clean, events, poisoned>>

---------------------------------------------------------------------------
(* reanalyze_file_internal *)

\* a faulty variant: the durable row is never used
cached_hit_never(cached_mtime, current_mtime) == FALSE

\* a faulty variant: any row is used, whatever modification time it holds
cached_hit_any_row(cached_mtime, current_mtime) == IsSome(cached_mtime)

\* if let Some(cached_mtime) = .. { if cached_mtime == current_mtime {
cached_hit(cached_mtime, current_mtime) ==
    IsSome(cached_mtime) /\ Unwrap(cached_mtime) = current_mtime

\* the run of undisturbed successful rescores of one file, after one more
after_rescore(run, undisturbed, f, val) ==
    IF ~undisturbed THEN None
    ELSE Some([file |-> f, val |-> val,
               runs |-> IF IsSome(run) /\ Unwrap(run).file = f THEN Unwrap(run).runs + 1 ELSE 1])

\* std::fs::metadata(file_path)?, current_mtime
RescoreBegin(f) ==
    /\ resc.pc = "idle"
    /\ events < MaxEvents
    /\ events' = events + 1
    /\ clean' = TRUE
    /\ IF Exists(fs, f)
       THEN /\ resc' = [IdleResc EXCEPT !.pc = "db", !.file = Some(f), !.mtime = fs[f].mtime]
            /\ UNCHANGED streak
       ELSE /\ resc' = [IdleResc EXCEPT !.ret = Some(Err("Could not read file metadata"))]
            /\ streak' = None
    /\ UNCHANGED <<watchlist, pins, watcher, fs, git, clock, db, cache, scan, progress, seen, poisoned>>

\* get_db_connection(..)?, load_cached_file_mtime(..)?, load_cached_file_score(..)?
RescoreLookup ==
    /\ resc.pc = "db"
    /\ \E db_ok \in BOOLEAN :
          LET f == Unwrap(resc.file)
              cached_mtime == load_cached_file_mtime(db, f)
              cached == load_cached_file_score(db, f)
          IN  IF ~db_ok \/ ~cached_mtime.ok
              THEN /\ resc' = [IdleResc EXCEPT !.ret = Some(Err("DB error"))]
                   /\ streak' = None
              ELSE /\ resc' = IF cached_hit(cached_mtime.val, resc.mtime) /\ IsSome(cached)
                              THEN [resc EXCEPT !.pc = "hit", !.cached = cached]
                              ELSE [resc EXCEPT !.pc = "score"]
                   /\ UNCHANGED streak
    /\ UNCHANGED <<watchlist, pins, watcher, fs, git, clock, db, cache, scan, progress, seen, clean, events, poisoned>>

\* patch_cached_result(cache, workspace_path, cached.clone()); return Ok(cached)
RescoreHit ==
    /\ resc.pc = "hit"
    /\ cache' = if_locked(poisoned, cache,
                          patch_cached_result(cache, WorkspacePath, Unwrap(resc.cached)))
    /\ resc' = [IdleResc EXCEPT !.ret = Some(Ok(Unwrap(resc.cached)))]
    /\ streak' = after_rescore(streak, clean, Unwrap(resc.file), Unwrap(resc.cached))
    /\ UNCHANGED <<watchlist, pins, watcher, fs, git, clock, db, scan, progress, seen, clean, events, poisoned>>

\* a faulty variant: a file that cannot be read is scored from the content
\* it had
score_with_content_kept(inputs, file_path, fsys) ==
    IF inputs.ok
    THEN score_file(WorkspacePath, file_path, inputs.val,
                    [fsys EXCEPT ![file_path].state = "ok"])
    ELSE inputs

\* let inputs = load_analysis_inputs(..)?; score_file(.., &inputs)
score_with(inputs, file_path, fsys) ==
    IF inputs.ok THEN score_file(WorkspacePath, file_path, inputs.val, fsys) ELSE inputs

\* the rescore from the file's score on
RescoreScored(score) ==
    IF score.ok
    THEN /\ resc' = [resc EXCEPT !.pc = "upsert",
                        !.updated = Some([score.val EXCEPT !.last_modified = resc.mtime])]
         /\ UNCHANGED streak
    ELSE /\ resc' = [IdleResc EXCEPT !.ret = Some(score)]
         /\ streak' = None

\* load_analysis_inputs(..)?, score_file(..)?, updated.last_modified = current_mtime
RescoreScore ==
    /\ resc.pc = "score"
    /\ \E settings_ok \in BOOLEAN :
          RescoreScored(score_with(load_analysis_inputs(settings_ok, git), Unwrap(resc.file), fs))
    /\ UNCHANGED <<watchlist, pins, watcher, fs, git, clock, db, cache, scan, progress, seen, clean, events, poisoned>>

\* upsert_file_score(&conn, &updated)?
RescoreUpsert ==
    /\ resc.pc = "upsert"
    /\ \E db_ok \in BOOLEAN :
          IF db_ok
          THEN /\ db' = upsert_file_score_with_conn(db, Unwrap(resc.updated), clock)
               /\ resc' = [resc EXCEPT !.pc = "patch"]
               /\ UNCHANGED streak
          ELSE /\ resc' = [IdleResc EXCEPT !.ret = Some(Err("DB upsert error"))]
               /\ streak' = None
               /\ UNCHANGED db
    /\ UNCHANGED <<watchlist, pins, watcher, fs, git, clock, cache, scan, progress, seen, clean, events, poisoned>>

\* patch_cached_result(cache, workspace_path, updated.clone()); Ok(updated)
RescorePatch ==
    /\ resc.pc = "patch"
    /\ cache' = if_locked(poisoned, cache,
                          patch_cached_result(cache, WorkspacePath, Unwrap(resc.updated)))
    /\ resc' = [IdleResc EXCEPT !.ret = Some(Ok(Unwrap(resc.updated)))]
    /\ streak' = after_rescore(streak, clean, Unwrap(resc.file), Unwrap(resc.updated))
    /\ UNCHANGED <<watchlist, pins, watcher, fs, git, clock, db, scan, progress, seen, clean, events, poisoned>>

---------------------------------------------------------------------------
(* The readers *)

GetHeatmap ==
    /\ events < MaxEvents
    /\ events' = events + 1
    /\ seen' = Some([val |-> lock_or_err(poisoned, get_heatmap_data(cache)),
                     scanning |-> scan.pc # "idle"])
    /\ UNCHANGED <<watchlist, pins, watcher, fs, git, clock, db, cache, scan, progress, resc, streak, clean, poisoned>>

GetBreakdown(path) ==
    /\ events < MaxEvents
    /\ events' = events + 1
    /\ seen' = Some([val |-> lock_or_err(poisoned, get_file_breakdown(cache, path)),
                     scanning |-> scan.pc # "idle"])
    /\ UNCHANGED <<watchlist, pins, watcher, fs, git, clock, db, cache, scan, progress, resc, streak, clean, poisoned>>

\* analyze_co_changes(&workspace_path, 90).unwrap_or_default(), then the lock
\* co_changes is what analyze_co_changes returns for the repository
GetChangeCouplings(threshold, co_changes) ==
    /\ events < MaxEvents
    /\ events' = events + 1
    /\ seen' = Some([fn |-> "get_change_couplings",
                     threshold |-> threshold,
                     co_change_result |-> unwrap_or_default(co_changes, EmptyCoChanges),
                     result |-> cache.result,
                     val |-> lock_or_err(poisoned,
                                get_change_couplings(WorkspacePath, threshold,
                                    unwrap_or_default(co_changes, EmptyCoChanges),
                                    cache, fs)),
                     scanning |-> scan.pc # "idle"])
    /\ UNCHANGED <<watchlist, pins, watcher, fs, git, clock, db, cache, scan, progress, resc, streak, clean, poisoned>>

Next ==
    \/ Tick
    \/ \E state \in {"ok", "unreadable", "absent"}, src \in Sources :
          ChangeFile(FileA, state, src)
    \/ \E down \in GitOutages : ChangeGit(down)
    \/ ScanBegin
    \/ ScanFile
    \/ ScanPersist
    \/ ScanPublish
    \/ RescoreBegin(FileA)
    \/ RescoreLookup
    \/ RescoreHit
    \/ RescoreScore
    \/ RescoreUpsert
    \/ RescorePatch
    \/ GetHeatmap
    \/ \E path \in {RelA, FileB} : GetBreakdown(path)

Spec == Init /\ [][Next]_vars

---------------------------------------------------------------------------
(* The operations handed a cache whose lock may be poisoned: the functions    *)
(* run_full_analysis_internal and reanalyze_file_internal take the cache as   *)
(* an argument, and a lock is poisoned once a thread has panicked holding it  *)

\* a holder of the cache lock panics
PoisonLock ==
    /\ ~poisoned
    /\ events < MaxEvents
    /\ events' = events + 1
    /\ poisoned' = TRUE
    /\ UNCHANGED <<watchlist, pins, watcher, fs, git, clock, db, cache, scan, progress, resc, seen, streak, clean>>

\* the thresholds a caller passes: none, 0.05, 1.0
Thresholds == {None, Some(Frac(5, 100)), Some(Frac(1, 1))}

NextLock ==
    \/ PoisonLock
    \/ ScanBegin
    \/ ScanFile
    \/ ScanPersist
    \/ ScanPublish
    \/ RescoreBegin(FileA)
    \/ RescoreLookup
    \/ RescoreHit
    \/ RescoreScore
    \/ RescoreUpsert
    \/ RescorePatch
    \/ GetHeatmap
    \/ \E path \in {RelA, FileB} : GetBreakdown(path)
    \/ \E threshold \in Thresholds : GetChangeCouplings(threshold, analyze_co_changes(git))

SpecLock == Init /\ [][NextLock]_vars

----------------------------------------------------------------------------
(* The change couplings of a repository with a long history, asked for once *)
(* while a scan fills the cache                                             *)

\* the pairs of the longest history
MaxPairs == 300

Digit(d) == (<<"0", "1", "2", "3", "4", "5", "6", "7", "8", "9">>)[d + 1]

\* the i-th file of the history that the workspace no longer holds
Old(i) == <<"x", Digit(i \div 100), Digit((i \div 10) % 10), Digit(i % 10), ".", "r", "s">>

\* a file of the history that the workspace no longer holds, and that
\* changed with many others
Gone == <<"g", ".", "r", "s">>

\* the i-th pair of the history: a file of the workspace, or Gone, changed
\* with Old(i); one pair in ten only once
HubOf(i) == IF i % 7 = 0 THEN Gone ELSE IF i % 2 = 0 THEN RelA ELSE RelB

CountOf(i) == IF i % 10 = 0 THEN 1 ELSE 2 + (i % 3)

\* the changes of Old(i): as many as its co-changes, or twice, or thirty
\* times as many
ChangesOf(i) == CountOf(i) * (IF i % 11 = 0 THEN 30 ELSE IF i % 13 = 0 THEN 2 ELSE 1)

HubChanges(hub) == IF hub = Gone THEN 8 ELSE 1000

\* the table analyze_co_changes returns for a history of n pairs; the pairs
\* come out of a HashMap, in an order that is not fixed: two orders are taken
History(n, backwards) ==
    [pairs |-> [k \in 1..n |->
                  LET i == IF backwards THEN n + 1 - k ELSE k
                  IN  <<HubOf(i), Old(i), CountOf(i)>>],
     file_change_counts |->
        [f \in {Old(i) : i \in 1..n} \cup {HubOf(i) : i \in 1..n} |->
            IF f \in {RelA, RelB, Gone} THEN HubChanges(f)
            ELSE ChangesOf(CHOOSE i \in 1..n : Old(i) = f)]]

\* none, a few, and about as many pairs as fill the answer with and without
\* a cached result
HistorySizes == {0, 12, MaxPairs - 70, MaxPairs - 14, MaxPairs}

Histories ==
    {Err("Git error")}
        \cup {Ok(History(n, backwards)) : n \in HistorySizes, backwards \in BOOLEAN}

NextCouplings ==
    \/ ScanBegin
    \/ ScanFile
    \/ ScanPersist
    \/ ScanPublish
    \/ \E threshold \in Thresholds, co_changes \in Histories :
          seen = None /\ GetChangeCouplings(threshold, co_changes)

SpecCouplings == Init /\ [][NextCouplings]_vars

---------------------------------------------------------------------------
(* The cache on its own: whole results and single files put into it, the    *)
(* files being FileScores of any composite score around the high-debt       *)
(* threshold, at paths that share directories                               *)

\* /w/s/t/c.rs: below a directory another file is in
FileC == <<"/", "w", "/", "s", "/", "t", "/", "c", ".", "r", "s">>

\* /w/\/d/e.rs: below a directory whose name is a backslash
FileD == <<"/", "w", "/", "\\", "/", "d", "/", "e", ".", "r", "s">>

ScoredPaths == <<FileA, FileB, FileC, FileD>>

\* composite scores, in hundredths: low, 65.00, 65.01
ScoredValues == {1200, 65 * 100, 65 * 100 + 1}

\* a FileScore as score_file returns it: churn weighs 1.00 and smells 0.01,
\* everything else 0
Scored(file_path, value) ==
    LET components ==
            [empty_components EXCEPT
                !.churn_rate = ComponentScore(value \div 100, 100, <<>>),
                !.code_smell_density = ComponentScore(value % 100, 1, <<>>)]
    IN  [path |-> file_path,
         relative_path |-> to_relative_path(WorkspacePath, file_path),
         composite_score |-> composite_of(components),
         components |-> components,
         loc |-> 10,
         language |-> detect_language(file_path),
         last_modified |-> 0,
         supervision_status |-> "none"]

\* what a scan can collect: files in enumeration order, some left out
ScoredLists ==
    {<<>>}
    \cup {<<Scored(ScoredPaths[i], v)>> : i \in 1..Len(ScoredPaths), v \in ScoredValues}
    \cup UNION {{<<Scored(ScoredPaths[p[1]], v), Scored(ScoredPaths[p[2]], w)>> :
                    v \in ScoredValues, w \in ScoredValues} :
                 p \in {q \in (1..Len(ScoredPaths)) \X (1..Len(ScoredPaths)) : q[1] < q[2]}}

\* run_full_analysis_internal, from build_analysis_result on
CacheReplace(files) ==
    /\ events < MaxEvents
    /\ events' = events + 1
    /\ \E duration_ms \in Durations :
          cache' = if_locked(poisoned, cache,
                             update_cache(cache, WorkspacePath,
                                          build_analysis_result(files, duration_ms)))
    /\ seen' = Some([fn |-> "update_cache"])
    /\ UNCHANGED <<watchlist, pins, watcher, fs, git, clock, db, scan, progress, resc, streak, clean, poisoned>>

\* another workspace, /v, and its file /v/b.rs
OtherWorkspace == <<"/", "v">>

FileV == <<"/", "v", "/", "b", ".", "r", "s">>

\* /w//b.rs: the file /w/b.rs, named another way
FileBB == <<"/", "w", "/", "/", "b", ".", "r", "s">>

\* the FileScores a rescore patches in, each with the workspace it was
\* asked for
Patches ==
    {<<WorkspacePath, Scored(ScoredPaths[i], v)>> : i \in 1..Len(ScoredPaths), v \in ScoredValues}
    \cup {<<WorkspacePath, [Scored(FileBB, v) EXCEPT !.loc = 11]>> : v \in ScoredValues}
    \cup {<<OtherWorkspace,
            [Scored(FileV, v) EXCEPT !.relative_path = to_relative_path(OtherWorkspace, FileV)]>> :
              v \in ScoredValues}

\* reanalyze_file_internal, from patch_cached_result on
CachePatch(workspace_path, file) ==
    /\ events < MaxEvents
    /\ events' = events + 1
    /\ cache' = if_locked(poisoned, cache, patch_cached_result(cache, workspace_path, file))
    /\ seen' = Some([fn |-> "patch_cached_result", workspace_path |-> workspace_path,
                     file |-> file])
    /\ UNCHANGED <<watchlist, pins, watcher, fs, git, clock, db, scan, progress, resc, streak, clean, poisoned>>

NextCache ==
    \/ \E files \in ScoredLists : CacheReplace(files)
    \/ \E i \in 1..Len(ScoredPaths), v \in ScoredValues :
          CachePatch(WorkspacePath, Scored(ScoredPaths[i], v))

SpecCache == Init /\ [][NextCache]_vars

\* the cache patched for two workspaces: the results of scans of /w that
\* found nothing, one file or two, and single files of /w and of /v
PatchedLists ==
    {<<>>, <<Scored(FileA, 1200)>>, <<Scored(FileB, 65 * 100)>>,
     <<Scored(FileA, 1200), Scored(FileB, 65 * 100 + 1)>>,
     <<Scored(FileB, 1200), Scored(FileC, 1200)>>}

NextPatches ==
    \/ \E files \in PatchedLists : CacheReplace(files)
    \/ \E patch \in Patches : CachePatch(patch[1], patch[2])

SpecPatches == Init /\ [][NextPatches]_vars

\* two patches, one after the other, each with the lock held on its own; the
\* record keeps what the first alone and the two in the other order leave
CachePatchPair(first, second) ==
    /\ events < MaxEvents
    /\ events' = events + 1
    /\ cache' = if_locked(poisoned, cache,
                     patch_cached_result(patch_cached_result(cache, first[1], first[2]),
                                         second[1], second[2]))
    /\ seen' = Some([fn |-> "patch_cached_result twice",
                     first |-> first,
                     second |-> second,
                     once |-> patch_cached_result(cache, first[1], first[2]),
                     swapped |-> patch_cached_result(
                                     patch_cached_result(cache, second[1], second[2]),
                                     first[1], first[2])])
    /\ UNCHANGED <<watchlist, pins, watcher, fs, git, clock, db, scan, progress, resc, streak, clean, poisoned>>

\* the patches that come in pairs: low and high scores for files of two
\* workspaces
PairedPatches ==
    {patch \in Patches :
        \/ patch[2].path \in {FileA, FileC, FileV} /\ patch[2].composite_score = 1200
        \/ patch[2].path \in {FileB, FileBB, FileV} /\ patch[2].composite_score > 65 * 100}

NextPairs ==
    \/ \E files \in PatchedLists : CacheReplace(files)
    \/ \E first \in PairedPatches, second \in PairedPatches : CachePatchPair(first, second)

SpecPairs == Init /\ [][NextPairs]_vars

---------------------------------------------------------------------------
(* The table on its own: rows written and read back, starting from an empty *)
(* table or from one an earlier version left; seen is the log of the writes *)
(* and reads                                                                *)

\* the FileScores written: the two files at each composite score
StoredScores == {Scored(f, v) : f \in FileSet, v \in ScoredValues}

\* upsert_file_score(&conn, &file)
StoreUpsert(file) ==
    /\ events < MaxEvents
    /\ events' = events + 1
    /\ db' = upsert_file_score_with_conn(db, file, clock)
    /\ seen' = Append(seen, [op |-> "upsert", file |-> file])
    /\ UNCHANGED <<watchlist, pins, watcher, fs, git, clock, cache, scan, progress, resc, streak, clean, poisoned>>

\* load_cached_file_score(&conn, file_path)
StoreLoad(file_path) ==
    /\ events < MaxEvents
    /\ events' = events + 1
    /\ seen' = Append(seen, [op |-> "load", path |-> file_path, row |-> db[file_path],
                             val |-> load_cached_file_score(db, file_path)])
    /\ UNCHANGED <<watchlist, pins, watcher, fs, git, clock, db, cache, scan, progress, resc, streak, clean, poisoned>>

NextStore ==
    \/ Tick
    \/ \E file \in StoredScores : StoreUpsert(file)
    \/ \E file_path \in FileSet : StoreLoad(file_path)

SpecStore == Init /\ [][NextStore]_vars

---------------------------------------------------------------------------
(* The signal analyzers on their own: one call in a behaviour, seen holding  *)
(* its arguments and its value                                               *)

File(readable, text, review) == [readable |-> readable, text |-> text, review |-> review]

\* the files given as a set of <<path, file>>
FilesOf(entries) ==
    [path \in {e[1] : e \in entries} |-> (CHOOSE e \in entries : e[1] = path)[2]]

LcovPath == PathJoin(WorkspacePath, <<"c", "o", "v", "e", "r", "a", "g", "e", "/", "l", "c", "o", "v", ".", "i", "n", "f", "o">>)

\* coverage reports: none, one that cannot be read, one that names s/a.rs,
\* one that names lib.rs
LcovReports ==
    { {},
      {<<LcovPath, File(FALSE, <<>>, None)>>},
      {<<LcovPath, File(TRUE, <<"S", "F", ":", "s", "/", "a", ".", "r", "s">>, None)>>},
      {<<LcovPath, File(TRUE, <<"S", "F", ":", "l", "i", "b", ".", "r", "s">>, None)>>} }

\* test files: none, or one at one of the naming patterns of a source file
TestFiles ==
    {{}} \cup {{<<PathJoin(WorkspacePath, test_patterns(rel)[i]), File(TRUE, <<>>, None)>>} :
                  rel \in {RelA, RelB}, i \in 1..7}

CoverageGap(relative_path, others) ==
    /\ seen = None
    /\ seen' = Some([fn |-> "compute_coverage_gap",
                     relative_path |-> relative_path,
                     others |-> others,
                     val |-> compute_coverage_gap(relative_path, WorkspacePath, others)])
    /\ UNCHANGED <<watchlist, pins, watcher, fs, git, clock, db, cache, scan, progress, resc, streak, clean, events,
                   poisoned>>

\* ages in days of a review date: in the future, recent, at and around both
\* ends of the interpolation, inside it, long ago
ReviewAges == {-1, 0, 29, 30, 31, 105, 179, 180, 181, 400}

\* a decision record: one that cannot be read, one without a review date,
\* one reviewed so many days ago
AdrContents ==
    {File(FALSE, <<>>, None), File(TRUE, <<>>, None)}
    \cup {File(TRUE, <<>>, Some(days)) : days \in ReviewAges}

\* decision records of s/a.rs: none, one at one of the three places, or an
\* undated one in the archive and a dated one beside the file
AdrFiles ==
    {{}}
    \cup {{<<adr_patterns(RelA, WorkspacePath)[i], content>>} :
             i \in 1..3, content \in AdrContents}
    \cup {{<<adr_patterns(RelA, WorkspacePath)[1], File(TRUE, <<>>, None)>>,
            <<adr_patterns(RelA, WorkspacePath)[3], File(TRUE, <<>>, Some(400))>>}}

\* smell scores at and around 30
SmellScores == {Frac(0, 1), Frac(30, 1), Frac(61, 2), Frac(100, 1)}

Staleness(relative_path, smell_score, others) ==
    /\ seen = None
    /\ seen' = Some([fn |-> "compute_staleness",
                     relative_path |-> relative_path,
                     smell_score |-> smell_score,
                     others |-> others,
                     val |-> compute_staleness(relative_path, WorkspacePath, smell_score,
                                               others)])
    /\ UNCHANGED <<watchlist, pins, watcher, fs, git, clock, db, cache, scan, progress, resc, streak, clean, events,
                   poisoned>>

\* the file whose change coupling is asked for, and its peers
Target == <<"t", ".", "r", "s">>

Peer(i) == <<(<<"a", "b", "c", "d", "e", "f", "g">>)[i], ".", "r", "s">>

\* co-change counts of the target with its peers, peer by peer: up to three
\* peers at any of three counts, and five, six and seven peers
CoCounts ==
    UNION {[1..n -> {2, 6, 10}] : n \in 0..3}
    \cup { <<2, 4, 6, 8, 10, 10>>, <<10, 10, 8, 6, 4, 2>>, <<10, 2, 10, 10, 10, 10>>,
           <<2, 4, 6, 8, 10>>, <<2, 2, 4, 6, 8, 10, 10>> }

\* the table analyze_co_changes returns: the target changed target_changes
\* times (None: not recorded), each peer 10 times; flipped puts the peer
\* first in its pair
CoChangeTable(counts, target_changes, flipped) ==
    [pairs |-> [i \in 1..Len(counts) |->
                  IF flipped THEN <<Peer(i), Target, counts[i]>>
                  ELSE <<Target, Peer(i), counts[i]>>],
     file_change_counts |->
        [f \in {Peer(i) : i \in 1..Len(counts)}
                \cup (IF IsSome(target_changes) THEN {Target} ELSE {}) |->
            IF f = Target THEN Unwrap(target_changes) ELSE 10]]

ChangeCoupling(relative_path, co_change_result) ==
    /\ seen = None
    /\ seen' = Some([fn |-> "compute_change_coupling",
                     relative_path |-> relative_path,
                     co_change_result |-> co_change_result,
                     val |-> compute_change_coupling(relative_path, co_change_result)])
    /\ UNCHANGED <<watchlist, pins, watcher, fs, git, clock, db, cache, scan, progress, resc, streak, clean, events,
                   poisoned>>

\* line counts blame attributes to an author
BlameLines == {0, 1, 25, 50, 75, 100}

\* the attributions of a file: up to three authors, each with a line count
Attributions == UNION {[authors -> BlameLines] : authors \in SUBSET {"x", "y", "z"}}

KnowledgeConcentration(blame_data, relative_path) ==
    /\ seen = None
    /\ seen' = Some([fn |-> "compute_knowledge_concentration",
                     blame_data |-> blame_data,
                     relative_path |-> relative_path,
                     val |-> compute_knowledge_concentration(blame_data, relative_path)])
    /\ UNCHANGED <<watchlist, pins, watcher, fs, git, clock, db, cache, scan, progress, resc, streak, clean, events,
                   poisoned>>

\* lengths in days of the history window
HistoryWindows == {0, 1, 7, 30, 90, 365}

\* commit counts of a file within the window; None: the file is not in the
\* churn table
CommitCounts == {None} \cup {Some(c) : c \in {0, 1, 6, 7, 8, 29, 30, 45, 90, 365, 400}}

FileChurn(commits, relative_path, history_days) ==
    /\ seen = None
    /\ seen' = Some([fn |-> "compute_file_churn",
                     commits |-> commits,
                     history_days |-> history_days,
                     val |-> compute_file_churn(
                                 IF IsSome(commits) THEN relative_path :> Unwrap(commits)
                                 ELSE EmptyMap,
                                 relative_path, history_days)])
    /\ UNCHANGED <<watchlist, pins, watcher, fs, git, clock, db, cache, scan, progress, resc, streak, clean, events,
                   poisoned>>

\* line counts and smell totals of a file
LineCounts == {0, 1, 49, 50, 51, 100, 800}

SmellTotals == {0, 1, 2, 15, 16, 17, 42, 1000}

SmellScore(smells_total, loc) ==
    /\ seen = None
    /\ seen' = Some([fn |-> "compute_smell_score",
                     smells_total |-> smells_total,
                     loc |-> loc,
                     val |-> compute_smell_score(smells_total, loc)])
    /\ UNCHANGED <<watchlist, pins, watcher, fs, git, clock, db, cache, scan, progress, resc, streak, clean, events,
                   poisoned>>

NextSignals ==
    \/ \E smells_total \in SmellTotals, loc \in LineCounts : SmellScore(smells_total, loc)
    \/ \E commits \in CommitCounts, relative_path \in {RelA, RelB},
          history_days \in HistoryWindows :
          FileChurn(commits, relative_path, history_days)
    \/ \E authors \in Attributions, relative_path \in {RelA, RelB} :
          KnowledgeConcentration(RelA :> authors, relative_path)
    \/ \E relative_path \in {Target, Peer(1), Peer(7)}, counts \in CoCounts,
          target_changes \in {None, Some(5), Some(10)}, flipped \in BOOLEAN :
          ChangeCoupling(relative_path, CoChangeTable(counts, target_changes, flipped))
    \/ \E relative_path \in {RelA, RelB}, smell_score \in SmellScores, adrs \in AdrFiles :
          Staleness(relative_path, smell_score, FilesOf(adrs))
    \/ \E relative_path \in {RelA, RelB}, report \in LcovReports, tests \in TestFiles :
          CoverageGap(relative_path, FilesOf(report \cup tests))

SpecSignals == Init /\ [][NextSignals]_vars

\* the import lists of a source: none, the other file, the file itself, a
\* module outside the workspace, and pairs of these
ImportLists ==
    {<<>>, << <<"a">> >>, << <<"b">> >>, << <<"b">>, <<"b">> >>,
     << <<"a">>, <<"x">> >>, << <<"x">>, <<"b">>, <<"a">> >>}

\* the workspaces: each file with one of the import lists, readable,
\* unreadable or absent
ImportGraphs ==
    [FileSet -> {[state |-> state, src |-> [SrcPlain EXCEPT !.imports = imports], mtime |-> 0] :
                    state \in {"ok", "unreadable", "absent"}, imports \in ImportLists}]

\* /w/x.rs, which the workspace does not hold
RelX == <<"x", ".", "r", "s">>

CouplingIndex(relative_path, fsys) ==
    /\ seen = None
    /\ seen' = Some([fn |-> "compute_coupling_index",
                     relative_path |-> relative_path,
                     fsys |-> fsys,
                     val |-> compute_coupling_index(relative_path, WorkspacePath, fsys)])
    /\ UNCHANGED <<watchlist, pins, watcher, fs, git, clock, db, cache, scan, progress, resc,
                   streak, clean, events, poisoned>>

NextImports ==
    \E relative_path \in {RelA, RelB, RelX}, fsys \in ImportGraphs :
        CouplingIndex(relative_path, fsys)

SpecImports == Init /\ [][NextImports]_vars

----------------------------------------------------------------------------
(* The settings the scoring core loads: one load, from one settings.json *)

\* the eight analyzer weights
WeightKeys == DOMAIN default_weights

\* the weights objects a settings.json may hold without any extra entry
BaseWeights ==
    { EmptyMap,
      default_settings["weights"].members,
      [k \in WeightKeys |-> JsonNumber(FracMul(default_weights[k], Frac(100, 1)))],
      [k \in WeightKeys |-> JsonNumber(Frac(0, 1))],
      "churn_rate" :> JsonNumber(Frac(5, 1)),
      "churn_rate" :> JsonNumber(Frac(-1, 1)),
      "churn_rate" :> JsonString }

\* what an entry that names no analyzer may hold
ExtraWeights ==
    {JsonNumber(Frac(1, 2)), JsonNumber(Frac(-1, 1)), JsonNumber(Frac(-9, 10)), JsonString}

\* the weights member of a settings.json: absent, not an object, or an object
StoredWeights ==
    {None, Some(JsonString)}
        \cup {Some(JsonObject(base)) : base \in BaseWeights}
        \cup {Some(JsonObject(insert(base, "legacy_weight", extra))) :
                  base \in BaseWeights, extra \in ExtraWeights}

StoredVersions == {None, Some(JsonNumber(Frac(0, 1))), Some(JsonNumber(Frac(2, 1)))}

StoredHistoryDays ==
    {None, Some(JsonString), Some(JsonNumber(Frac(3, 1))), Some(JsonNumber(Frac(30, 1))),
     Some(JsonNumber(Frac(1000, 1)))}

\* the object of a settings.json with the members that are there
Member(key, value) == IF IsSome(value) THEN key :> Unwrap(value) ELSE EmptyMap

StoredSettings ==
    {None} \cup
    {Some(Member("schema_version", version) @@ Member("gitHistoryDays", days)
              @@ Member("weights", weights)) :
        version \in StoredVersions, days \in StoredHistoryDays, weights \in StoredWeights}

LoadSettings(stored, disk_ok) ==
    /\ seen = None
    /\ seen' = Some([fn |-> "load_effective_analysis_settings",
                     stored |-> stored,
                     disk_ok |-> disk_ok,
                     val |-> load_effective_analysis_settings(stored, disk_ok)])
    /\ UNCHANGED <<watchlist, pins, watcher, fs, git, clock, db, cache, scan, progress, resc, streak, clean, events,
                   poisoned>>

NextSettings == \E stored \in StoredSettings, disk_ok \in BOOLEAN : LoadSettings(stored, disk_ok)

SpecSettings == Init /\ [][NextSettings]_vars

\* migrate_settings on a stored object, and on what it returned
MigrateSettings(input) ==
    /\ seen = None
    /\ seen' = Some([fn |-> "migrate_settings",
                     input |-> input,
                     val |-> migrate_settings(input),
                     again |-> migrate_settings(migrate_settings(input))])
    /\ UNCHANGED <<watchlist, pins, watcher, fs, git, clock, db, cache, scan, progress, resc,
                   streak, clean, events, poisoned>>

NextMigrate == \E stored \in StoredSettings \ {None} : MigrateSettings(Unwrap(stored))

SpecMigrate == Init /\ [][NextMigrate]_vars

---------------------------------------------------------------------------
(* Properties *)

\* the rescore in flight takes a step
RescoreSteps == resc' # resc

\* the scan in flight takes a step
ScanSteps == scan' # scan

\* C1: a rescore that reads from disk the modification time the durable row
\* holds as mtime_cached goes down the cached path: it returns the FileScore
\* loaded from the row as it is and writes nothing to the table; and a
\* successful rescore that follows an undisturbed successful rescore of the
\* same unchanged file is such a cached return of the same FileScore.
C1_Step ==
    RescoreSteps =>
        /\ ( /\ resc.pc = "db"
             /\ resc'.pc # "idle"
             /\ load_cached_file_mtime(db, Unwrap(resc.file)) = Ok(Some(resc.mtime)) )
              => /\ resc'.pc = "hit"
                 /\ resc'.cached = load_cached_file_score(db, Unwrap(resc.file))
                 /\ db' = db
        /\ resc.pc = "hit"
              => /\ resc'.ret = Some(Ok(Unwrap(resc.cached)))
                 /\ db' = db
        /\ ( /\ resc.pc \in {"hit", "patch"}
             /\ clean
             /\ IsSome(streak)
             /\ Unwrap(streak).file = Unwrap(resc.file) )
              => /\ resc.pc = "hit"
                 /\ resc'.ret = Some(Ok(Unwrap(streak).val))
                 /\ db' = db

C1_RescoreIdempotent == [][C1_Step]_vars

\* two rescores of the unchanged file in a row, the second returning what the
\* first returned
C1_Witness ==
    /\ IsSome(streak)
    /\ Unwrap(streak).runs = 2
    /\ resc.pc = "idle"
    /\ resc.ret = Some(Ok(Unwrap(streak).val))

\* a cache that holds a whole result: nothing at all, or a workspace path, a
\* result and the heatmap of exactly that result's files
WholeResult(c) ==
    \/ c = EmptyCache
    \/ /\ IsSome(c.workspace_path)
       /\ IsSome(c.result)
       /\ Unwrap(c.result).file_count = Len(Unwrap(c.result).files)
       /\ c.heatmap = Some(build_heatmap_tree(Unwrap(c.workspace_path), Unwrap(c.result).files))

\* C2: a running scan changes the cache in one step only, its last, and that
\* step puts the workspace path, the result with every file the scan scored
\* and the heatmap of those files in place together; a reader is handed what
\* the cache holds at one moment, and the cache holds a whole result at every
\* moment.
C2_Step ==
    /\ WholeResult(cache)
    /\ (ScanSteps /\ scan.pc # "publish") => cache' = cache
    /\ (ScanSteps /\ scan.pc = "publish")
          => /\ scan.index = Len(scan.files)
             /\ Unwrap(scan.result).files = scan.scored
             /\ cache' = [workspace_path |-> Some(WorkspacePath),
                          result |-> scan.result,
                          heatmap |-> Some(build_heatmap_tree(WorkspacePath, scan.scored))]
             /\ WholeResult(cache')
    /\ seen' # seen
          => Unwrap(seen').val \in
                {get_heatmap_data(cache)} \cup {get_file_breakdown(cache, p) : p \in {RelA, FileB}}

C2_ScanPublishesAtOnce == [][C2_Step]_vars

\* a reader ran while a scan was in flight and was told there is no data yet;
\* the scan has since put its two files in place
C2_Witness ==
    /\ IsSome(seen)
    /\ Unwrap(seen).scanning
    /\ ~Unwrap(seen).val.ok
    /\ scan.pc = "idle"
    /\ IsSome(scan.ret)
    /\ Unwrap(scan.ret).ok
    /\ cache.result = Some(Unwrap(scan.ret).val)
    /\ Len(Unwrap(cache.result).files) = 2

\* a cached FileScore and the durable row of its absolute path agree
SameAsRow(file) ==
    /\ IsSome(db[file.path])
    /\ Unwrap(db[file.path]).composite_score = file.composite_score
    /\ Unwrap(db[file.path]).last_modified = file.last_modified

\* C3: once no scan and no rescore is in flight, every FileScore of the
\* in-memory result equals the durable row keyed by its absolute path, in
\* composite score and last-modified time.
C3_ConvergedWhenQuiet ==
    (scan.pc = "idle" /\ resc.pc = "idle" /\ IsSome(cache.result))
        => \A i \in 1..Len(Unwrap(cache.result).files) : SameAsRow(Unwrap(cache.result).files[i])

\* the step in which a scan that has scored all its files fails to write them
\* to the table and returns the error
PersistFails ==
    /\ ScanSteps
    /\ scan.pc = "score"
    /\ scan.index = Len(scan.files)
    /\ scan'.pc = "idle"
    /\ ~Unwrap(scan'.ret).ok

\* C4: when the durable write of a scan fails after the files were scored,
\* the scan returns an error and the in-memory cache holds the new result
\* all the same.
C4_Step ==
    PersistFails
        => /\ IsSome(cache'.result)
           /\ Unwrap(cache'.result).files = scan.scored
           /\ cache'.heatmap = Some(build_heatmap_tree(WorkspacePath, scan.scored))

C4_CacheKeptOnPersistFailure == [][C4_Step]_vars

\* C5: in every in-memory result, file_count is the number of files,
\* high_debt_count the number of files whose composite score is strictly
\* above 65, and workspace_score the mean of the composite scores, 0 when
\* there are no files.
C5_ResultCounts ==
    IsSome(cache.result) =>
        LET r == Unwrap(cache.result)
            high == {i \in 1..Len(r.files) : r.files[i].composite_score > 65 * 100}
        IN  /\ r.file_count = Len(r.files)
            /\ r.high_debt_count = Cardinality(high)
            /\ r.workspace_score[2] > 0
            /\ IF r.files = <<>> THEN r.workspace_score[1] = 0
               ELSE r.workspace_score[1] * Len(r.files)
                        = r.workspace_score[2] * TotalScore(r.files)

\* a result of three files, two of them at 65.00 and only the third, at
\* 65.01, counted as high debt, the last file having been patched in
C5_Witness ==
    /\ IsSome(cache.result)
    /\ Unwrap(cache.result).file_count = 3
    /\ Unwrap(cache.result).high_debt_count = 1
    /\ Unwrap(cache.result).duration_ms \in Durations
    /\ \E i \in 1..3 : Unwrap(cache.result).files[i].composite_score = 65 * 100
    /\ Unwrap(cache.result).workspace_score[2] = 3

\* the leaves below a node, each with the paths of the directory nodes that
\* lead down to it, the given ones first
RECURSIVE LeafChains(_, _)
LeafChains(node, above) ==
    IF ~IsSome(node.children) THEN {<<node.path, above>>}
    ELSE UNION {LeafChains(Unwrap(node.children)[i], Append(above, node.path)) :
                   i \in 1..Len(Unwrap(node.children))}

\* the leaves of a tree with their chains of directory nodes below the root
LeafChainsBelowRoot(root) ==
    UNION {LeafChains(Unwrap(root.children)[i], <<>>) : i \in 1..Len(Unwrap(root.children))}

\* the k-th directory node above a leaf carries the first k segments of the
\* leaf's path, joined by '/'
PrefixChain(leaf_path, chain) ==
    LET parts == Split(leaf_path, "/")
    IN  /\ Len(chain) = Len(parts) - 1
        /\ \A k \in 1..Len(chain) : chain[k] = JoinWith(SubSeq(parts, 1, k), "/")

\* C8: in every heatmap the successive prefixes of each leaf's path are the
\* paths of the directory nodes that lead from the root down to the leaf, and
\* the root's score is None.
C8_HeatmapPrefixes ==
    IsSome(cache.heatmap) =>
        /\ Unwrap(cache.heatmap).score = None
        /\ \A lc \in LeafChainsBelowRoot(Unwrap(cache.heatmap)) : PrefixChain(lc[1], lc[2])

\* the FileScores the program holds to hand out or has handed out: those a
\* scan collected and returned, those a rescore loaded, recomputed and
\* returned, and those the cache serves
HandedOut ==
    {scan.scored[i] : i \in 1..Len(scan.scored)}
    \cup (IF IsSome(scan.ret) /\ Unwrap(scan.ret).ok
          THEN {Unwrap(scan.ret).val.files[i] : i \in 1..Len(Unwrap(scan.ret).val.files)}
          ELSE {})
    \cup (IF IsSome(resc.cached) THEN {Unwrap(resc.cached)} ELSE {})
    \cup (IF IsSome(resc.updated) THEN {Unwrap(resc.updated)} ELSE {})
    \cup (IF IsSome(resc.ret) /\ Unwrap(resc.ret).ok THEN {Unwrap(resc.ret).val} ELSE {})
    \cup (IF IsSome(cache.result)
          THEN {Unwrap(cache.result).files[i] : i \in 1..Len(Unwrap(cache.result).files)}
          ELSE {})

\* the eight contributions a FileScore stores, added up
StoredSum(file) ==
    SumSeq([i \in 1..Len(ComponentKeys) |-> file.components[ComponentKeys[i]].contribution])

\* C6: the composite score of every FileScore handed out, whether a scan
\* computed it, a rescore recomputed it or a rescore loaded it from the table
\* on a cached hit, is the sum of the eight contributions it stores.
C6_CompositeIsSum == \A file \in HandedOut : file.composite_score = StoredSum(file)

\* a rescore returned, on a cached hit, a FileScore with a staleness
\* contribution
C6_Witness ==
    /\ resc.pc = "idle"
    /\ IsSome(resc.ret)
    /\ Unwrap(resc.ret).ok
    /\ IsSome(streak)
    /\ Unwrap(streak).runs = 2
    /\ Unwrap(resc.ret).val.components.decision_staleness.contribution > 0
    /\ Unwrap(resc.ret).val.composite_score > 0

\* every component zero
Zeroed(components) ==
    \A i \in 1..Len(ComponentKeys) :
        /\ components[ComponentKeys[i]].raw_score = 0
        /\ components[ComponentKeys[i]].weight = 0
        /\ components[ComponentKeys[i]].contribution = 0

\* C7: a load that follows the upsert of a FileScore at the same path returns
\* a FileScore with that relative path, composite score and line count; and a
\* load of a row whose blob does not parse succeeds, with the row's columns
\* and all eight components zero.
C7_RoundTrip ==
    \A k \in 1..Len(seen) :
        seen[k].op = "load" =>
            /\ (k > 1 /\ seen[k - 1].op = "upsert" /\ seen[k - 1].file.path = seen[k].path)
                  => /\ IsSome(seen[k].val)
                     /\ Unwrap(seen[k].val).relative_path = seen[k - 1].file.relative_path
                     /\ Unwrap(seen[k].val).composite_score = seen[k - 1].file.composite_score
                     /\ Unwrap(seen[k].val).loc = seen[k - 1].file.loc
                     /\ Unwrap(seen[k].val).components = seen[k - 1].file.components
            /\ (IsSome(seen[k].row) /\ ~from_json(Unwrap(seen[k].row).score_data_json).ok)
                  => /\ IsSome(seen[k].val)
                     /\ Unwrap(seen[k].val).relative_path = Unwrap(seen[k].row).relative_path
                     /\ Unwrap(seen[k].val).composite_score = Unwrap(seen[k].row).composite_score
                     /\ Zeroed(Unwrap(seen[k].val).components)

\* a row with the blob "{}" was loaded, with zeroed components; the path was
\* then written at 65.01 over it and loaded again, at 65.01
C7_Witness ==
    /\ Len(seen) = 3
    /\ seen[1].op = "load"
    /\ IsSome(seen[1].row)
    /\ Unwrap(seen[1].row).score_data_json = EmptyJsonObject
    /\ Zeroed(Unwrap(seen[1].val).components)
    /\ seen[2].op = "upsert"
    /\ seen[2].file.path = seen[1].path
    /\ seen[2].file.composite_score = 65 * 100 + 1
    /\ seen[3].op = "load"
    /\ seen[3].path = seen[1].path
    /\ Unwrap(seen[3].val).composite_score = 65 * 100 + 1

\* the progress events among the effects of the scan
ProgressEvents == SelectSeq(progress, LAMBDA e : e.kind = "progress")

\* C9: a scan emits one progress event for each enumerated file, in
\* enumeration order, current counting from 1 up to total and total being the
\* number of enumerated files, and the event for a file comes before the file
\* is scored, whether the scoring then succeeds or the file is skipped.
C9_ProgressPerFile ==
    scan.pc \in {"score", "publish"} =>
        /\ Len(ProgressEvents) = scan.index
        /\ scan.pc = "publish" => scan.index = Len(scan.files)
        /\ Len(progress) = 2 * scan.index
        /\ \A k \in 1..scan.index :
              /\ progress[2 * k - 1] = [kind |-> "progress", current |-> k,
                                         total |-> Len(scan.files),
                                         current_file |-> scan.files[k]]
              /\ progress[2 * k].kind = "score"
              /\ progress[2 * k].file = scan.files[k]

\* a scan of two files went through both; the first could not be read and
\* was skipped, after its progress event
C9_Witness ==
    /\ scan.pc = "publish"
    /\ Len(scan.files) = 2
    /\ Len(ProgressEvents) = 2
    /\ ~progress[2].ok
    /\ progress[4].ok
    /\ Len(scan.scored) = 1

\* the step of a scan that takes the next enumerated file
TakesFile == ScanSteps /\ scan.pc = "score" /\ scan.index < Len(scan.files)

\* C10: a scan goes on over missing inputs.  A file that cannot be read is
\* left out and the scan moves to the next file; a readable file is scored
\* and collected.  History that is unavailable when the scan loads its inputs
\* is taken as empty and does not fail the scan, and with empty history the
\* churn, knowledge and change-coupling raw scores of a scored file are 0.
C10_Step ==
    /\ TakesFile =>
          LET file_path == scan.files[scan.index + 1]
          IN  /\ scan'.pc = "score"
              /\ scan'.index = scan.index + 1
              /\ ~Readable(fs, file_path) => scan'.scored = scan.scored
              /\ Readable(fs, file_path) =>
                    /\ Len(scan'.scored) = Len(scan.scored) + 1
                    /\ SubSeq(scan'.scored, 1, Len(scan.scored)) = scan.scored
                    /\ LET file == scan'.scored[Len(scan'.scored)]
                           inputs == Unwrap(scan.inputs)
                       IN  /\ file.path = file_path
                           /\ inputs.churn = EmptyMap
                                 => file.components.churn_rate.raw_score = 0
                           /\ inputs.blame = EmptyMap
                                 => file.components.knowledge_concentration.raw_score = 0
                           /\ inputs.co_changes = EmptyCoChanges
                                 => file.components.change_coupling.raw_score = 0
    /\ (ScanSteps /\ scan.pc = "idle") =>
          /\ scan'.pc = "idle" => Unwrap(scan'.ret) = Err("Failed to read settings.json")
          /\ scan'.pc # "idle" =>
                /\ "churn" \in git => Unwrap(scan'.inputs).churn = EmptyMap
                /\ "blame" \in git => Unwrap(scan'.inputs).blame = EmptyMap
                /\ "co_changes" \in git => Unwrap(scan'.inputs).co_changes = EmptyCoChanges

C10_ScanBestEffort == [][C10_Step]_vars

\* with the history unavailable and the first file unreadable, a scan
\* returned the other file alone, its three history scores 0
C10_Witness ==
    /\ git = {"churn", "blame", "co_changes"}
    /\ fs[FileA].state = "unreadable"
    /\ scan.pc = "idle"
    /\ IsSome(scan.ret)
    /\ Unwrap(scan.ret).ok
    /\ Len(Unwrap(scan.ret).val.files) = 1
    /\ Unwrap(scan.ret).val.files[1].path = FileB
    /\ Unwrap(scan.ret).val.files[1].components.churn_rate.raw_score = 0
    /\ Unwrap(scan.ret).val.files[1].components.knowledge_concentration.raw_score = 0
    /\ Unwrap(scan.ret).val.files[1].components.change_coupling.raw_score = 0

\* C11: while the cache lock is poisoned, every request that needs the cache
\* returns an error: a read of the heatmap, of a breakdown or of the change
\* couplings, a scan when it comes to publish its result, and a rescore when
\* it comes to patch the cache.
C11_Step ==
    poisoned =>
        /\ seen' # seen => ~Unwrap(seen').val.ok
        /\ (ScanSteps /\ scan.pc = "publish") => ~Unwrap(scan'.ret).ok
        /\ (RescoreSteps /\ resc.pc \in {"hit", "patch"}) => ~Unwrap(resc'.ret).ok

C11_PoisonedLockFailsRequest == [][C11_Step]_vars

\* the call made is one of the named analyzer
Called(fn) == IsSome(seen) /\ Unwrap(seen).fn = fn

\* the coverage report is there, can be read and mentions the file
InCoverage(call) ==
    /\ LcovPath \in DOMAIN call.others
    /\ call.others[LcovPath].readable
    /\ Contains(call.others[LcovPath].text, call.relative_path)

\* a test file exists at one of the naming patterns of the file
HasTestFile(call) ==
    \E i \in 1..Len(test_patterns(call.relative_path)) :
        PathJoin(WorkspacePath, test_patterns(call.relative_path)[i]) \in DOMAIN call.others

\* C12: the coverage gap of a file is 30 when the coverage report mentions
\* it, 30 when a test file exists at one of its naming patterns, whether or
\* not there is a coverage report, and 80 when neither holds.
C12_CoverageGapPolicy ==
    Called("compute_coverage_gap") =>
        LET call == Unwrap(seen)
        IN  /\ InCoverage(call) => call.val = Frac(30, 1)
            /\ HasTestFile(call) => call.val = Frac(30, 1)
            /\ (~InCoverage(call) /\ ~HasTestFile(call)) => call.val = Frac(80, 1)

\* the decision records of the call's file that exist, as places 1..3 in the
\* order they are looked for
AdrsFound(call) ==
    {i \in 1..3 : adr_patterns(call.relative_path, WorkspacePath)[i] \in DOMAIN call.others}

\* the first of them
TheAdr(call) ==
    call.others[adr_patterns(call.relative_path, WorkspacePath)[
                    CHOOSE k \in AdrsFound(call) : \A j \in AdrsFound(call) : k <= j]]

\* C13: with a decision record whose review date is d days old the
\* staleness is 0 for d < 30, 100 for d > 180 and (d - 30) / 150 * 100 from
\* 30 to 180; with a record that has no readable review date it is 50; with
\* no record it is 50 when the smell score is above 30 and 0 otherwise; and
\* it always lies within 0..100.
C13_StalenessPolicy ==
    Called("compute_staleness") =>
        LET call == Unwrap(seen)
        IN  /\ FracGe(call.val, Frac(0, 1)) /\ FracGe(Frac(100, 1), call.val)
            /\ IF AdrsFound(call) = {}
               THEN call.val = IF call.smell_score[1] > 30 * call.smell_score[2]
                               THEN Frac(50, 1) ELSE Frac(0, 1)
               ELSE IF TheAdr(call).readable /\ IsSome(TheAdr(call).review)
               THEN LET d == Unwrap(TheAdr(call).review)
                    IN  /\ d < 30 => call.val = Frac(0, 1)
                        /\ d > 180 => call.val = Frac(100, 1)
                        /\ (30 <= d /\ d <= 180) => call.val[1] * 150 = (d - 30) * 100 * call.val[2]
               ELSE call.val = Frac(50, 1)

\* a file whose decision record was reviewed 105 days ago: staleness 50, half
\* way up the interpolation
C13_Witness ==
    /\ Called("compute_staleness")
    /\ AdrsFound(Unwrap(seen)) # {}
    /\ TheAdr(Unwrap(seen)).review = Some(105)
    /\ Unwrap(seen).smell_score = Frac(0, 1)
    /\ Unwrap(seen).val = Frac(50, 1)

\* the pairs of the table the call's file is in
PeersOf(call) ==
    {i \in 1..Len(call.co_change_result.pairs) :
        \/ call.co_change_result.pairs[i][1] = call.relative_path
        \/ call.co_change_result.pairs[i][2] = call.relative_path}

\* both files of every pair have their changes recorded
ChangesRecorded(table) ==
    \A i \in 1..Len(table.pairs) :
        /\ table.pairs[i][1] \in DOMAIN table.file_change_counts
        /\ table.pairs[i][2] \in DOMAIN table.file_change_counts

\* co-changes over the smaller of the two change counts, at most 1
PeerRatio(table, i) ==
    LET least == Min(table.file_change_counts[table.pairs[i][1]],
                     table.file_change_counts[table.pairs[i][2]])
    IN  IF table.pairs[i][3] >= least THEN Frac(1, 1) ELSE Frac(table.pairs[i][3], least)

RECURSIVE RatioSum(_, _)
RatioSum(table, T) ==
    IF T = {} THEN Frac(0, 1)
    ELSE LET i == CHOOSE k \in T : TRUE
         IN  FracAdd(PeerRatio(table, i), RatioSum(table, T \ {i}))

\* C14: the change coupling of a file without peers is 0; otherwise it is
\* 100 times the average of its five largest peer ratios, of all of them
\* when there are fewer than five, a ratio being the co-change count over the
\* smaller of the two files' change counts, at most 1; with a single peer it
\* is 100 times that peer's ratio.
C14_ChangeCoupling ==
    Called("compute_change_coupling") =>
        LET call == Unwrap(seen)
            table == call.co_change_result
            peers == PeersOf(call)
        IN  /\ FracGe(call.val, Frac(0, 1)) /\ FracGe(Frac(100, 1), call.val)
            /\ peers = {} => call.val = Frac(0, 1)
            /\ (peers # {} /\ ChangesRecorded(table)) =>
                  /\ \E T \in SUBSET peers :
                        /\ Cardinality(T) = Min(5, Cardinality(peers))
                        /\ \A i \in T, j \in peers \ T :
                              FracGe(PeerRatio(table, i), PeerRatio(table, j))
                        /\ call.val = FracDiv(FracMul(RatioSum(table, T), Frac(100, 1)),
                                              Frac(Cardinality(T), 1))
                  /\ Cardinality(peers) = 1 =>
                        call.val = FracMul(PeerRatio(table, CHOOSE i \in peers : TRUE),
                                           Frac(100, 1))

\* six peers at ratios 0.2, 0.4, 0.6, 0.8, 1.0 and 1.0: the score is 76
C14_Witness ==
    /\ Called("compute_change_coupling")
    /\ Unwrap(seen).relative_path = Target
    /\ Unwrap(seen).co_change_result = CoChangeTable(<<2, 4, 6, 8, 10, 10>>, Some(10), FALSE)
    /\ {PeerRatio(Unwrap(seen).co_change_result, i) : i \in 1..6}
          = {Frac(1, 5), Frac(2, 5), Frac(3, 5), Frac(4, 5), Frac(1, 1)}
    /\ Unwrap(seen).val = Frac(76, 1)

\* C15: the knowledge concentration of a file is 0 when it has no blame
\* data, no attributed lines, or a top author with at most half of the
\* attributed lines; otherwise it is (share - 0.5) / 0.5 * 100 for the top
\* author's share, at most 100.  A single author of all lines gives 100, two
\* authors with equal lines give 0, 75 lines against 25 give 50.
C15_KnowledgeConcentration ==
    Called("compute_knowledge_concentration") =>
        LET call == Unwrap(seen)
        IN  IF call.relative_path \notin DOMAIN call.blame_data
            THEN call.val = Frac(0, 1)
            ELSE LET lines == call.blame_data[call.relative_path]
                     total == SumOver(lines, DOMAIN lines)
                     top == IF DOMAIN lines = {} THEN 0
                            ELSE lines[CHOOSE a \in DOMAIN lines :
                                         \A b \in DOMAIN lines : lines[b] <= lines[a]]
                 IN  /\ FracGe(call.val, Frac(0, 1)) /\ FracGe(Frac(100, 1), call.val)
                     /\ (total = 0 \/ 2 * top <= total) => call.val = Frac(0, 1)
                     /\ (total > 0 /\ 2 * top > total) =>
                           call.val[1] * total = (2 * top - total) * 100 * call.val[2]
                     /\ (total > 0 /\ top = total) => call.val = Frac(100, 1)
                     /\ (Cardinality(DOMAIN lines) = 2 /\ 2 * top = total) => call.val = Frac(0, 1)
                     /\ (total = 100 /\ top = 75) => call.val = Frac(50, 1)

\* 75 lines of one author against 25 of another: the score is 50
C15_Witness ==
    /\ Called("compute_knowledge_concentration")
    /\ Unwrap(seen).relative_path = RelA
    /\ Unwrap(seen).blame_data = (RelA :> (("x" :> 75) @@ ("y" :> 25)))
    /\ Unwrap(seen).val = Frac(50, 1)

\* C16: the churn score of a file with c commits in a window of d days is
\* min(100, 100 * c / d): 100 once c reaches d, 100 * c / d below that; a
\* file that is not in the churn table counts as c = 0, and c = 0 scores 0.
C16_Churn ==
    Called("compute_file_churn") =>
        LET call == Unwrap(seen)
            c == IF IsSome(call.commits) THEN Unwrap(call.commits) ELSE 0
            d == call.history_days
        IN  /\ c = 0 => call.val = Frac(0, 1)
            /\ (c > 0 /\ c >= d) => call.val = Frac(100, 1)
            /\ c < d => call.val[1] * d = 100 * c * call.val[2]

\* 45 commits in 90 days score 50
C16_Witness ==
    /\ Called("compute_file_churn")
    /\ Unwrap(seen).commits = Some(45)
    /\ Unwrap(seen).history_days = 90
    /\ Unwrap(seen).val = Frac(50, 1)

\* C17: the smell score is 0 for a file of no lines, whatever its smell
\* count; otherwise it is min(100, total / loc * 5000); it lies within
\* 0..100 and is 100 exactly when total / loc is at least 0.02.
C17_SmellScore ==
    Called("compute_smell_score") =>
        LET call == Unwrap(seen)
            saturated == call.loc > 0 /\ 50 * call.smells_total >= call.loc
        IN  /\ FracGe(call.val, Frac(0, 1)) /\ FracGe(Frac(100, 1), call.val)
            /\ call.loc = 0 => call.val = Frac(0, 1)
            /\ (call.val = Frac(100, 1)) <=> saturated
            /\ (call.loc > 0 /\ ~saturated) =>
                  call.val[1] * call.loc = call.smells_total * 5000 * call.val[2]

\* 16 smells in 800 lines, a ratio of exactly 0.02: the score is 100
C17_Witness ==
    /\ Called("compute_smell_score")
    /\ Unwrap(seen).smells_total = 16
    /\ Unwrap(seen).loc = 800
    /\ Unwrap(seen).val = Frac(100, 1)


\* C18: whatever the stored settings hold, the weight map that
\* load_effective_analysis_settings returns has the eight analyzer weights,
\* each in [0,1] and together summing to 1
C18_EightWeightsSumToOne ==
    Called("load_effective_analysis_settings") /\ Unwrap(seen).val.ok =>
        LET weights == Unwrap(seen).val.val.weights
        IN  /\ WeightKeys \subseteq DOMAIN weights
            /\ \A k \in WeightKeys :
                   FracGe(weights[k], Frac(0, 1)) /\ FracGe(Frac(1, 1), weights[k])
            /\ SumWeights(weights, WeightKeys) = Frac(1, 1)

\* the call of get_change_couplings seen, the pairs it returned and the
\* threshold it went by
Couplings == Unwrap(seen)

Returned == Couplings.val.val

ThresholdUsed ==
    IF IsSome(Couplings.threshold) THEN Unwrap(Couplings.threshold) ELSE Frac(5, 100)

\* count / min(changes_a, changes_b), clamped to 1, of a pair of the table
RatioOf(triple) ==
    LET counts == Couplings.co_change_result.file_change_counts
    IN  FracMin(Frac(triple[3], Min(counts[triple[1]], counts[triple[2]])), Frac(1, 1))

\* the pairs of the table whose count is at least 2 and whose ratio is at
\* least the threshold
Qualifying ==
    {i \in 1..Len(Couplings.co_change_result.pairs) :
        /\ Couplings.co_change_result.pairs[i][3] >= 2
        /\ FracGe(RatioOf(Couplings.co_change_result.pairs[i]), ThresholdUsed)}

\* the files of the result that was cached at the call
CachedFiles ==
    IF IsSome(Couplings.result)
    THEN {Unwrap(Couplings.result).files[i].relative_path :
             i \in 1..Len(Unwrap(Couplings.result).files)}
    ELSE {}

\* the qualifying pairs with a file in the cached result, or all of them
\* when no file is cached
QualifyingInCache ==
    {i \in Qualifying :
        \/ CachedFiles = {}
        \/ Couplings.co_change_result.pairs[i][1] \in CachedFiles
        \/ Couplings.co_change_result.pairs[i][2] \in CachedFiles}

\* what is returned for a pair of the table that is returned
Expected(i) ==
    [file_a |-> Couplings.co_change_result.pairs[i][1],
     file_b |-> Couplings.co_change_result.pairs[i][2],
     co_change_count |-> Couplings.co_change_result.pairs[i][3],
     coupling_ratio |-> RatioOf(Couplings.co_change_result.pairs[i])]

Answer(pair) ==
    [file_a |-> pair.file_a, file_b |-> pair.file_b,
     co_change_count |-> pair.co_change_count, coupling_ratio |-> pair.coupling_ratio]

\* only qualifying pairs are returned, with their count and ratio, largest
\* count first, and at most 200 of them
ReturnsOnlyQualifying ==
    LET returned == Returned
        expected == {Expected(i) : i \in Qualifying}
        threshold == ThresholdUsed
    IN  /\ \A k \in 1..Len(returned) : Answer(returned[k]) \in expected
        /\ \A k \in 1..Len(returned) :
               /\ returned[k].co_change_count >= 2
               /\ FracGe(returned[k].coupling_ratio, threshold)
        /\ \A k \in 1..(Len(returned) - 1) :
               returned[k].co_change_count >= returned[k + 1].co_change_count
        /\ Len(returned) <= 200

\* the pairs of the table that were left out of the answer
LeftOut(candidates) ==
    LET returned == Returned
        kept == {<<returned[k].file_a, returned[k].file_b>> : k \in 1..Len(returned)}
    IN  {i \in candidates :
            <<Couplings.co_change_result.pairs[i][1],
              Couplings.co_change_result.pairs[i][2]>> \notin kept}

\* of the pairs of candidates, when there are more than 200, the 200 of
\* the highest counts are kept
KeepsHighestOf(candidates) ==
    Cardinality(candidates) > 200 =>
        /\ Len(Returned) = 200
        /\ \A i \in LeftOut(candidates) :
               Couplings.co_change_result.pairs[i][3] <= Returned[200].co_change_count

EntriesFor(c, path) ==
    IF IsSome(c.result)
    THEN {i \in 1..Len(Unwrap(c.result).files) : Unwrap(c.result).files[i].path = path}
    ELSE {}

\* the cached result holds exactly one entry for the file, and it is this one
OnlyEntry(c, file) ==
    /\ Cardinality(EntriesFor(c, file.path)) = 1
    /\ \A i \in EntriesFor(c, file.path) : Unwrap(c.result).files[i] = file

\* C20: a rescore that finds no row for the path, or a row whose mtime_cached
\* differs from the modification time read at the start of the call, and that
\* succeeds, scores the file anew, sets last_modified to that modification
\* time, writes the row, whose mtime_cached is then that time, and leaves
\* exactly one entry for the path in the cached result, the FileScore returned.
C20_Step ==
    RescoreSteps =>
        /\ ( /\ resc.pc = "db"
             /\ resc'.pc # "idle"
             /\ \/ ~IsSome(db[Unwrap(resc.file)])
                \/ Unwrap(db[Unwrap(resc.file)]).mtime_cached # Some(resc.mtime) )
              => /\ resc'.pc = "score"
                 /\ resc'.mtime = resc.mtime
        /\ (resc.pc = "score" /\ resc'.pc # "idle")
              => /\ resc'.pc = "upsert"
                 /\ resc'.mtime = resc.mtime
                 /\ resc'.updated =
                       Some([score_file(WorkspacePath, Unwrap(resc.file),
                                        load_analysis_inputs(TRUE, git).val, fs).val
                                EXCEPT !.last_modified = resc.mtime])
        /\ (resc.pc = "upsert" /\ resc'.pc # "idle")
              => /\ resc'.pc = "patch"
                 /\ resc'.updated = resc.updated
                 /\ IsSome(db'[Unwrap(resc.file)])
                 /\ Unwrap(db'[Unwrap(resc.file)]).mtime_cached = Some(resc.mtime)
                 /\ load_cached_file_score(db', Unwrap(resc.file)) = resc.updated
        /\ resc.pc = "patch"
              => /\ resc'.ret = Some(Ok(Unwrap(resc.updated)))
                 /\ Unwrap(resc.updated).path = Unwrap(resc.file)
                 /\ Unwrap(resc.updated).last_modified = resc.mtime
                 /\ OnlyEntry(cache', Unwrap(resc.updated))

C20_ColdAndMismatchRescore == [][C20_Step]_vars

\* the first operation of all, a rescore of a file that has no row, has
\* returned: the row holds the modification time of the FileScore returned
\* and the cached result holds that FileScore alone
C20_Witness ==
    /\ events = 1
    /\ resc.pc = "idle"
    /\ IsSome(resc.ret)
    /\ Unwrap(resc.ret).ok
    /\ IsSome(db[FileA])
    /\ Unwrap(db[FileA]).mtime_cached = Some(Unwrap(resc.ret).val.last_modified)
    /\ Unwrap(resc.ret).val.last_modified = fs[FileA].mtime
    /\ OnlyEntry(cache, Unwrap(resc.ret).val)

---------------------------------------------------------------------------
(* commands::db::watchlist_crud: every invocation opens its own connection  *)
(* and runs its statements one by one, outside any transaction; tauri runs    *)
(* async commands on a multi-threaded runtime, so the statements of two       *)
(* invocations interleave                                                     *)

\* if count >= 5 && !already_pinned
MaxWatchlist == 5

\* the commands issued
MaxCommands == 3

\* the files a user pins
WatchPaths == {<<"/", "w", "/", d>> : d \in {"1", "2", "3", "4", "5", "6"}}

\* SELECT COUNT(*) FROM watchlist
watchlist_count(table) == Cardinality(table)

\* SELECT EXISTS(SELECT 1 FROM watchlist WHERE file_path = ?1)
watchlist_exists(table, file_path) == \E row \in table : row.file_path = file_path

\* INSERT OR REPLACE INTO watchlist (file_path, pinned_at) VALUES (?1, ?2)
watchlist_insert_or_replace(table, file_path, now) ==
    {row \in table : row.file_path # file_path}
        \cup {[file_path |-> file_path, pinned_at |-> now]}

\* DELETE FROM watchlist WHERE file_path = ?1
watchlist_delete(table, file_path) == {row \in table : row.file_path # file_path}

\* the verdict of a pin: full unless the file is already there
watchlist_full(count, already_pinned) == count >= MaxWatchlist /\ ~already_pinned

WatchlistFrame ==
    UNCHANGED <<fs, git, clock, db, cache, scan, progress, resc, seen, streak, clean,
                poisoned, watcher>>

\* "pin": file_path.ok_or("file_path required")?, then the count
PinCount(c, file_path) ==
    /\ pins[c].pc = "idle"
    /\ events < MaxCommands
    /\ events' = events + 1
    /\ pins' = [pins EXCEPT ![c] =
                    IF ~IsSome(file_path)
                    THEN [IdlePin EXCEPT !.ret = Some(Err("file_path required"))]
                    ELSE [IdlePin EXCEPT !.pc = "counted", !.file_path = file_path,
                                         !.count = watchlist_count(watchlist)]]
    /\ UNCHANGED watchlist
    /\ WatchlistFrame

\* "pin": the query for the file's own row
PinExists(c) ==
    /\ pins[c].pc = "counted"
    /\ pins' = [pins EXCEPT ![c].pc = "checked",
                            ![c].already_pinned =
                                watchlist_exists(watchlist, Unwrap(pins[c].file_path))]
    /\ UNCHANGED <<watchlist, events>>
    /\ WatchlistFrame

\* "pin": the verdict, and the row written
PinInsert(c) ==
    /\ pins[c].pc = "checked"
    /\ IF watchlist_full(pins[c].count, pins[c].already_pinned)
       THEN /\ pins' = [pins EXCEPT ![c] =
                           [IdlePin EXCEPT !.ret = Some(Err("Watchlist is full"))]]
            /\ UNCHANGED watchlist
       ELSE /\ watchlist' = watchlist_insert_or_replace(watchlist,
                                Unwrap(pins[c].file_path), clock)
            /\ pins' = [pins EXCEPT ![c] = [IdlePin EXCEPT !.ret = Some(Ok("pinned"))]]
    /\ UNCHANGED events
    /\ WatchlistFrame

\* "unpin"
Unpin(c, file_path) ==
    /\ pins[c].pc = "idle"
    /\ events < MaxCommands
    /\ events' = events + 1
    /\ IF ~IsSome(file_path)
       THEN /\ pins' = [pins EXCEPT ![c] =
                           [IdlePin EXCEPT !.ret = Some(Err("file_path required"))]]
            /\ UNCHANGED watchlist
       ELSE /\ watchlist' = watchlist_delete(watchlist, Unwrap(file_path))
            /\ pins' = [pins EXCEPT ![c] = [IdlePin EXCEPT !.ret = Some(Ok("unpinned"))]]
    /\ WatchlistFrame

\* "list": the rows; their order is by pinned_at, and open among equal times
ListPinned(c) ==
    /\ pins[c].pc = "idle"
    /\ events < MaxCommands
    /\ events' = events + 1
    /\ pins' = [pins EXCEPT ![c] = [IdlePin EXCEPT !.ret = Some(Ok(watchlist))]]
    /\ UNCHANGED watchlist
    /\ WatchlistFrame

\* the table of a workspace opened again: four files pinned earlier
PinnedEarlier ==
    {[file_path |-> <<"/", "w", "/", d>>, pinned_at |-> 0] : d \in {"1", "2", "3", "4"}}

InitWatchlist == InitButWatchlist /\ watchlist \in {{}, PinnedEarlier}

NextWatchlist ==
    \/ \E c \in Commands, file_path \in {None} \cup {Some(f) : f \in WatchPaths} :
          PinCount(c, file_path)
    \/ \E c \in Commands : PinExists(c)
    \/ \E c \in Commands : PinInsert(c)
    \/ \E c \in Commands, file_path \in {None} \cup {Some(f) : f \in WatchPaths} :
          Unpin(c, file_path)
    \/ \E c \in Commands : ListPinned(c)

SpecWatchlist == InitWatchlist /\ [][NextWatchlist]_vars

---------------------------------------------------------------------------
(* commands::watcher::start_file_watcher: the notify callback sends every   *)
(* event into the channel, the spawned thread receives and forwards them      *)

\* Duration::from_millis(500)
DebounceMs == 500

\* the grain of time
StepMs == 250

WatcherFrame ==
    UNCHANGED <<fs, git, clock, db, cache, scan, progress, resc, seen, streak, clean,
                poisoned, watchlist, pins>>

\* the OS reports a change of a file: let _ = tx.send(event)
WatchReport(path) ==
    /\ events < MaxEvents
    /\ events' = events + 1
    /\ watcher' = [watcher EXCEPT !.channel = Append(@, path),
                                  !.unanswered = @ \cup {path}]
    /\ WatcherFrame

\* if now.duration_since(last_event_time) > Duration::from_millis(500)
forwarded(since) == since > DebounceMs

\* Ok(event) = rx.recv_timeout(..): the event is emitted as file_changed and
\* last_event_time set, or the event is let go
WatchForward ==
    /\ watcher.channel # <<>>
    /\ LET path == Head(watcher.channel)
       IN  watcher' =
               IF forwarded(watcher.since)
               THEN [channel |-> Tail(watcher.channel),
                     since |-> 0,
                     unanswered |-> watcher.unanswered \ {path},
                     emitted |-> Append(watcher.emitted, path)]
               ELSE [watcher EXCEPT !.channel = Tail(@)]
    /\ UNCHANGED events
    /\ WatcherFrame

\* time passes; beyond the window its length makes no difference
WatchWait ==
    /\ watcher.since <= DebounceMs
    /\ watcher' = [watcher EXCEPT !.since = @ + StepMs]
    /\ UNCHANGED events
    /\ WatcherFrame

NextWatcher ==
    \/ \E path \in FileSet : WatchReport(path)
    \/ WatchForward
    \/ WatchWait

\* the thread's loop keeps running and time keeps passing; no change of a
\* file has to come
SpecWatcher ==
    Init /\ [][NextWatcher]_vars /\ WF_vars(WatchForward) /\ WF_vars(WatchWait)

\* the step is a single-file patch of the cache
PatchSteps == events' # events /\ Unwrap(seen').fn = "patch_cached_result"

\* the file entries of a cache
FilesOfCache(c) == IF IsSome(c.result) THEN Unwrap(c.result).files ELSE <<>>

\* the entries a file matches, by absolute or by relative path
Matching(files, file) ==
    {i \in 1..Len(files) :
        files[i].path = file.path \/ files[i].relative_path = file.relative_path}

\* C21: a single-file patch of a cache that is empty or bound to another
\* workspace leaves a result of that file alone (file_count 1,
\* workspace_score its composite score) bound to the patch's workspace; a
\* patch of a cache bound to the same workspace replaces the entry that
\* matches by absolute or relative path, or appends one, and leaves every
\* other entry as it was.
C21_Step ==
    PatchSteps =>
        LET workspace_path == Unwrap(seen').workspace_path
            file == Unwrap(seen').file
            old == FilesOfCache(cache)
            new == FilesOfCache(cache')
            hits == Matching(old, file)
        IN  /\ cache'.workspace_path = Some(workspace_path)
            /\ IsSome(cache'.result)
            /\ IF cache.workspace_path # Some(workspace_path)
               THEN /\ new = <<file>>
                    /\ Unwrap(cache'.result).file_count = 1
                    /\ Unwrap(cache'.result).workspace_score = <<file.composite_score, 1>>
               ELSE IF hits = {}
               THEN new = Append(old, file)
               ELSE /\ Len(new) = Len(old)
                    /\ \E i \in hits :
                           /\ new[i] = file
                           /\ \A j \in 1..Len(old) : j # i => new[j] = old[j]

C21_PatchPolicy == [][C21_Step]_vars

\* /w//b.rs was patched last and holds the first of two entries: it took
\* the place of an entry of the same workspace
C21_Witness ==
    /\ IsSome(seen)
    /\ Unwrap(seen).fn = "patch_cached_result"
    /\ Unwrap(seen).file.path = FileBB
    /\ cache.workspace_path = Some(WorkspacePath)
    /\ Len(FilesOfCache(cache)) = 2
    /\ FilesOfCache(cache)[1] = Unwrap(seen).file

\* the leaves below a node, from left to right
RECURSIVE LeafSeq(_)
LeafSeq(node) ==
    IF ~IsSome(node.children) THEN <<node>>
    ELSE LET children == Unwrap(node.children)
             below[k \in 0..Len(children)] ==
                 IF k = 0 THEN <<>> ELSE below[k - 1] \o LeafSeq(children[k])
         IN  below[Len(children)]

\* a node and all the nodes below it
RECURSIVE NodesOf(_)
NodesOf(node) ==
    {node} \cup (IF ~IsSome(node.children) THEN {}
                 ELSE UNION {NodesOf(Unwrap(node.children)[i]) :
                                i \in 1..Len(Unwrap(node.children))})

\* what a leaf shows of a file: path, score and size
LeafOfFile(file) == <<file.relative_path, Some(file.composite_score), Some(file.loc)>>

ShownByLeaf(node) == <<node.path, node.score, node.loc>>

\* how many elements of a sequence the function maps to the value
Occurrences(F(_), seq, value) == Cardinality({i \in 1..Len(seq) : F(seq[i]) = value})

\* a leaf with score and size and no child list, or an internal node with a
\* child list and neither score nor size
NodeShape(node) ==
    \/ IsSome(node.score) /\ IsSome(node.loc) /\ ~IsSome(node.children)
    \/ ~IsSome(node.score) /\ ~IsSome(node.loc) /\ IsSome(node.children)

\* C22: whenever the cache holds a result or a heatmap it holds both, the
\* leaves of the heatmap correspond one to one to the files of the result
\* (leaf path the relative path, leaf score the composite score, leaf size
\* the line count), and every node is a leaf with score and size and no
\* child list or an internal node with a child list and no score or size.
C22_HeatmapOfFiles ==
    /\ IsSome(cache.heatmap) <=> IsSome(cache.result)
    /\ IsSome(cache.heatmap) =>
        LET leaves == LeafSeq(Unwrap(cache.heatmap))
            files == Unwrap(cache.result).files
            root == Unwrap(cache.heatmap)
        IN  /\ IsSome(root.children)
            /\ Len(leaves) = Len(files)
            /\ \A i \in 1..Len(files) :
                   Occurrences(ShownByLeaf, leaves, LeafOfFile(files[i]))
                       = Occurrences(LeafOfFile, files, LeafOfFile(files[i]))
            /\ \A node \in NodesOf(root) : NodeShape(node)

\* the heatmap after /w//b.rs, of 11 lines, took the place of /w/b.rs next
\* to a file in a directory: two leaves, one of them of size 11, and a
\* directory node
C22_Witness ==
    /\ IsSome(cache.heatmap)
    /\ cache.workspace_path = Some(WorkspacePath)
    /\ Len(LeafSeq(Unwrap(cache.heatmap))) = 2
    /\ \E i \in 1..2 : LeafSeq(Unwrap(cache.heatmap))[i].loc = Some(11)
    /\ Cardinality(NodesOf(Unwrap(cache.heatmap))) > 3

\* two patches of one workspace for files that share neither path nor
\* relative path
NonOverlapping(first, second) ==
    /\ first[1] = second[1]
    /\ first[2].path # second[2].path
    /\ first[2].relative_path # second[2].relative_path

\* C23: the same patch applied twice leaves the cache that it leaves applied
\* once, and two patches of the same workspace for different files leave
\* the same cache in either order.
C23_IdempotentCommutative ==
    Called("patch_cached_result twice") =>
        LET first == Unwrap(seen).first
            second == Unwrap(seen).second
        IN  /\ first = second => cache = Unwrap(seen).once
            /\ NonOverlapping(first, second) => cache = Unwrap(seen).swapped

\* the step in which a full scan publishes its result
PublishSteps == scan.pc = "publish" /\ scan'.pc = "idle"

\* C24: when a full scan publishes, the cache holds exactly the result the
\* scan built and returns, the files and scores it collected and the heatmap
\* of those files, whatever single-file patches went into the cache before;
\* nothing of the earlier cache is merged in.
C24_Step ==
    PublishSteps =>
        /\ cache'.workspace_path = Some(WorkspacePath)
        /\ cache'.result = scan.result
        /\ Unwrap(cache'.result).files = scan.scored
        /\ scan'.ret = Some(Ok(Unwrap(cache'.result)))
        /\ cache'.heatmap = Some(build_heatmap_tree(WorkspacePath, scan.scored))

C24_LastFullWriterWins == [][C24_Step]_vars

\* a rescore patched a score of FileA into the cache, and the cache holds the
\* result a scan published later, with another score for FileA that the scan
\* computed from the content now on disk
C24_Witness ==
    /\ resc.pc = "idle"
    /\ IsSome(resc.ret)
    /\ Unwrap(resc.ret).ok
    /\ scan.pc = "idle"
    /\ IsSome(scan.ret)
    /\ Unwrap(scan.ret).ok
    /\ cache.result = Some(Unwrap(scan.ret).val)
    /\ \E i \in 1..Len(FilesOfCache(cache)) :
           /\ FilesOfCache(cache)[i].path = Unwrap(resc.ret).val.path
           /\ FilesOfCache(cache)[i].composite_score # Unwrap(resc.ret).val.composite_score
           /\ \E settings_ok \in BOOLEAN :
                  score_with(load_analysis_inputs(settings_ok, git), FileA, fs)
                      = Ok(FilesOfCache(cache)[i])

\* the durable row of a file would be served by a rescore: the row's
\* mtime_cached is the file's modification time on disk
WarmRow(f) ==
    /\ Exists(fs, f)
    /\ load_cached_file_mtime(db, f).ok
    /\ cached_hit(load_cached_file_mtime(db, f).val, fs[f].mtime)
    /\ IsSome(load_cached_file_score(db, f))

\* C25: whenever the durable row of a file holds the modification time the
\* file has on disk, the stored score is one of the content now on disk: its
\* line count is that of the content.
C25_CachedHitNeverStale ==
    \A f \in FileSet :
        WarmRow(f) => Unwrap(load_cached_file_score(db, f)).loc = fs[f].src.loc

\* the rescore ended with an error
RescoreFailed(r) == r.pc = "idle" /\ IsSome(r.ret) /\ ~Unwrap(r.ret).ok

\* the step in which a rescore asks for the file's metadata
MetadataSteps == resc.pc = "idle" /\ (resc' # resc \/ (clean' /\ ~clean))

\* the step in which a rescore loads the inputs and reads the file's content
ContentSteps == resc.pc = "score" /\ resc' # resc

\* C26: a rescore of a file whose metadata cannot be read, or whose content
\* cannot be read when it comes to scoring it, ends with an error, and from
\* its start to that end the durable table and the in-memory cache, result
\* and heatmap, stay as they were.
C26_Step ==
    /\ (MetadataSteps /\ ~Exists(fs, FileA)) =>
           RescoreFailed(resc') /\ db' = db /\ cache' = cache
    /\ (MetadataSteps /\ Exists(fs, FileA)) =>
           resc'.pc = "db" /\ db' = db /\ cache' = cache
    /\ (resc.pc = "db" /\ resc' # resc /\ resc'.pc # "hit") => db' = db /\ cache' = cache
    /\ (ContentSteps /\ ~Readable(fs, Unwrap(resc.file))) =>
           RescoreFailed(resc') /\ db' = db /\ cache' = cache

C26_FailedRescoreChangesNothing == [][C26_Step]_vars

\* a rescore of the removed file has failed on its metadata, with a row for
\* the file in the durable table and a result with the file in the cache
C26_Witness ==
    /\ RescoreFailed(resc)
    /\ Unwrap(resc.ret) = Err("Could not read file metadata")
    /\ ~Exists(fs, FileA)
    /\ IsSome(db[FileA])
    /\ \E i \in 1..Len(FilesOfCache(cache)) : FilesOfCache(cache)[i].path = FileA

\* C27: the watchlist never holds more than 5 files, whatever pin and unpin
\* commands ran and however their statements interleaved.
C27_AtMostFivePinned == Cardinality(watchlist) <= MaxWatchlist

\* C28: every change the OS watcher reports for a file is eventually
\* followed by a file_changed event for that file, emitted at or after the
\* change.
C28_EveryChangeForwarded ==
    \A path \in FileSet :
        (path \in watcher.unanswered) ~> (path \notin watcher.unanswered)

\* the degree of the file asked for, in the graph of the call
AskedDegree ==
    degree(walkdir(Unwrap(seen).fsys), WorkspacePath, Unwrap(seen).fsys,
           Unwrap(seen).relative_path)

\* the largest degree in the graph of the call
LargestDegree == max_degree(walkdir(Unwrap(seen).fsys), WorkspacePath, Unwrap(seen).fsys)

\* C29: compute_coupling_index returns at most 50: the degree of the file
\* asked for never exceeds the largest degree of the workspace, a file of
\* the largest degree scores exactly 50, and the score is 0 when no file
\* imports anything.
C29_CouplingAtMostFifty ==
    Called("compute_coupling_index") =>
        /\ FracGe(Frac(50, 1), Unwrap(seen).val)
        /\ AskedDegree <= LargestDegree
        /\ LargestDegree = 0 => Unwrap(seen).val = Frac(0, 1)
        /\ (LargestDegree > 0 /\ AskedDegree = LargestDegree) =>
               Unwrap(seen).val = Frac(50, 1)

\* s/a.rs imports three modules, one of them b.rs, which imports it back:
\* with degree 4 it scores 50
C29_Witness ==
    /\ Called("compute_coupling_index")
    /\ Unwrap(seen).relative_path = RelA
    /\ AskedDegree = 4
    /\ Unwrap(seen).val = Frac(50, 1)

\* the object with schema_version 0 put in
AsVersionZero(input) == insert(input, "schema_version", JsonNumber(Frac(0, 1)))

\* C30: an object without schema_version migrates to what the same object
\* with schema_version 0 migrates to, percentage weights divided by 100, and
\* migrating what a migration returned changes nothing.
C30_MissingVersionIsZero ==
    Called("migrate_settings") =>
        /\ "schema_version" \notin DOMAIN Unwrap(seen).input =>
               Unwrap(seen).val = migrate_settings(AsVersionZero(Unwrap(seen).input))
        /\ Unwrap(seen).again = Unwrap(seen).val

============================================================================
